---- MODULE Spec2Model ----
(***************************************************************************)
(* Model of the hana-block (perforated screen) transmittance engine:       *)
(* common.HanaBlockSpec, distance_point_shadow, transmission_rate_base,    *)
(* transmission_rate_base_mesh_method and the older                        *)
(* hana_block_transmission_factor.                                         *)
(*                                                                         *)
(* Numbers.  Lengths are millimetres.  A Python float is a record          *)
(* [nan, n, d]: NaN, or the exact rational n/d (d > 0, lowest terms).      *)
(* Angles are drawn from the angles whose sine and cosine are multiples of *)
(* 1/5 (0, 90, 180 degrees and the 3-4-5 angles), so that the trigonometry *)
(* of the shadow projector is exact.  math.sqrt, math.acos and math.sin of *)
(* the circle formula are computed in fixed point, 1/1000.                 *)
(***************************************************************************)
EXTENDS Integers, Sequences, FiniteSets, TLC

VARIABLES
    calc_mode,  \* the run's calc_mode: "analysis" or "mesh"
    spec,       \* the HanaBlockSpec of the run, NoSpec before it is built
    op,         \* the last operation: "none", "build", "shadow", "rate_*", "idle"
    args,       \* the arguments of the last call
    ret,        \* what the last call returned: a float, or a pair of floats
    err,        \* the exception the last call raised, "none" if it returned
    pc,         \* the position of each running evaluation or orchestrator
    frame,      \* the local variables of each of them
    hana_block, \* the HanaBlock of parametric_studies, NoBlock before it is built
    files       \* the names of the files written so far

vars == <<calc_mode, spec, op, args, ret, err, pc, frame, hana_block, files>>

\* what the calls of the engine made one at a time leave alone
run_vars == <<pc, frame, hana_block, files>>

(* ------------------------------ bounds --------------------------------- *)

\* largest width, height and vertex coordinate of an opening, mm
MaxSize == 2
\* largest radius of a circular opening, mm
MaxRadius == 1
\* largest |displacement| component handed to the overlap functions, mm
MaxDist == 2
\* largest depth of the block, mm
MaxDepth == 4

(* --------------------------- exact rationals --------------------------- *)

Abs(x) == IF x < 0 THEN -x ELSE x

Max2(a, b) == IF a >= b THEN a ELSE b

RECURSIVE GCD(_, _)
GCD(a, b) == IF b = 0 THEN a ELSE GCD(b, a % b)

\* the float n/d, in lowest terms with a positive denominator
Rat(n, d) ==
    LET s == IF d < 0 THEN -1 ELSE 1
        g == GCD(Abs(n), Abs(d))
    IN  [nan |-> FALSE, n |-> (s * n) \div g, d |-> (s * d) \div g]

R(i) == [nan |-> FALSE, n |-> i, d |-> 1]

NaN == [nan |-> TRUE, n |-> 0, d |-> 1]

isnan(x) == x.nan

\* float arithmetic: a NaN operand gives NaN; sums and differences are taken
\* over the least common denominator
RAdd(a, b) ==
    IF a.nan \/ b.nan THEN NaN
    ELSE LET g == GCD(a.d, b.d)
         IN  Rat(a.n * (b.d \div g) + b.n * (a.d \div g), (a.d \div g) * b.d)
RSub(a, b) ==
    IF a.nan \/ b.nan THEN NaN
    ELSE LET g == GCD(a.d, b.d)
         IN  Rat(a.n * (b.d \div g) - b.n * (a.d \div g), (a.d \div g) * b.d)
RMul(a, b) == IF a.nan \/ b.nan THEN NaN ELSE Rat(a.n * b.n, a.d * b.d)
RDiv(a, b) == IF a.nan \/ b.nan THEN NaN ELSE Rat(a.n * b.d, a.d * b.n)
RAbs(a) == [nan |-> FALSE, n |-> Abs(a.n), d |-> a.d]
RLt(a, b) == a.n * b.d < b.n * a.d
RLeq(a, b) == a.n * b.d <= b.n * a.d
RGeq(a, b) == RLeq(b, a)

\* int(): truncation toward zero of n/d, d > 0
Trunc(n, d) == IF n >= 0 THEN n \div d ELSE -((-n) \div d)

(* ------------------------------ common.py ------------------------------ *)

\* common.get_error_value(): 0.0001
get_error_value == Rat(1, 10000)

NoSpec == [type |-> "none"]

NoBlock == [number_of_openings |-> -1]

PeakNames == <<"peak_a", "peak_b", "peak_c", "peak_a_dash", "peak_b_dash", "peak_c_dash">>

\* a vertex map: name -> <<x, y>>, both floats
Pt(x, y) == <<R(x), R(y)>>

\* math.pi in fixed point
PiFP == 3142

FP == 10 * 10 * 10

\* integer square root, by bisection: the largest k with k*k <= x
RECURSIVE ISqrtIn(_, _, _)
ISqrtIn(x, lo, hi) ==
    IF lo >= hi THEN lo
    ELSE LET mid == (lo + hi + 1) \div 2
         IN  IF mid * mid <= x THEN ISqrtIn(x, mid, hi) ELSE ISqrtIn(x, lo, mid - 1)

\* math.sqrt of the integer x, in fixed point
SqrtFP(x) == ISqrtIn(x * FP * FP, 0, (x + 1) * FP)

\* seeded fault: a __post_init__ whose final else does not raise
PostInitNeverRaises(type) == FALSE

\* HanaBlockSpec.__post_init__: the derived fields of a spec of the given
\* type.  area is [n, d] (mm2), perimeter is in fixed point.  An unrecognized
\* type raises ValueError; nothing else is validated.
PostInitRaises(type) == type \notin {"square", "circle", "triangle"}

\* seeded fault: the area of a triangle not halved
PostInit_double_area(type, depth, inclination_angle, azimuth_angle, width, height, radius, points) ==
    IF type = "square" THEN
        [type |-> type, depth |-> depth, inclination_angle |-> inclination_angle,
         azimuth_angle |-> azimuth_angle, width |-> width, height |-> height,
         radius |-> radius,
         points |-> [k \in {"peak_a", "peak_b", "peak_c", "peak_d"} |->
                       CASE k = "peak_a" -> Pt(0, 0)
                         [] k = "peak_b" -> Pt(width, 0)
                         [] k = "peak_c" -> Pt(width, height)
                         [] OTHER -> Pt(0, height)],
         area |-> [n |-> width * height, d |-> 1],
         perimeter |-> (width + height) * 2 * FP]
    ELSE IF type = "circle" THEN
        [type |-> type, depth |-> depth, inclination_angle |-> inclination_angle,
         azimuth_angle |-> azimuth_angle, width |-> radius * 2, height |-> radius * 2,
         radius |-> radius,
         points |-> [k \in {"peak_a"} |-> Pt(radius, radius)],
         area |-> [n |-> PiFP * radius * radius, d |-> FP],
         perimeter |-> PiFP * radius * 2]
    ELSE IF type = "triangle" THEN
        LET ax == points["peak_a"][1]
            ay == points["peak_a"][2]
            bx == points["peak_b"][1]
            by == points["peak_b"][2]
            cx == points["peak_c"][1]
            cy == points["peak_c"][2]
        IN  [type |-> type, depth |-> depth, inclination_angle |-> inclination_angle,
             azimuth_angle |-> azimuth_angle,
             width |-> Max2(ax, Max2(bx, cx)), height |-> Max2(ay, Max2(by, cy)),
             radius |-> radius,
             points |-> [k \in {"peak_a", "peak_b", "peak_c"} |->
                           Pt(points[k][1], points[k][2])],
             area |-> [n |-> Abs(ax * by + bx * cy + cx * ay - ay * bx - by * cx - cy * ax),
                       d |-> 1],
             perimeter |-> SqrtFP((ax - bx) * (ax - bx) + (ay - by) * (ay - by))
                           + SqrtFP((bx - cx) * (bx - cx) + (by - cy) * (by - cy))
                           + SqrtFP((cx - ax) * (cx - ax) + (cy - ay) * (cy - ay))]
    ELSE
        \* not reached: __post_init__ raises for any other type
        [type |-> type, depth |-> depth, inclination_angle |-> inclination_angle,
         azimuth_angle |-> azimuth_angle, width |-> width, height |-> height,
         radius |-> radius, points |-> <<>>, area |-> [n |-> 0, d |-> 1],
         perimeter |-> 0]

PostInit(type, depth, inclination_angle, azimuth_angle, width, height, radius, points) ==
    IF type = "square" THEN
        [type |-> type, depth |-> depth, inclination_angle |-> inclination_angle,
         azimuth_angle |-> azimuth_angle, width |-> width, height |-> height,
         radius |-> radius,
         points |-> [k \in {"peak_a", "peak_b", "peak_c", "peak_d"} |->
                       CASE k = "peak_a" -> Pt(0, 0)
                         [] k = "peak_b" -> Pt(width, 0)
                         [] k = "peak_c" -> Pt(width, height)
                         [] OTHER -> Pt(0, height)],
         area |-> [n |-> width * height, d |-> 1],
         perimeter |-> (width + height) * 2 * FP]
    ELSE IF type = "circle" THEN
        [type |-> type, depth |-> depth, inclination_angle |-> inclination_angle,
         azimuth_angle |-> azimuth_angle, width |-> radius * 2, height |-> radius * 2,
         radius |-> radius,
         points |-> [k \in {"peak_a"} |-> Pt(radius, radius)],
         area |-> [n |-> PiFP * radius * radius, d |-> FP],
         perimeter |-> PiFP * radius * 2]
    ELSE IF type = "triangle" THEN
        LET ax == points["peak_a"][1]
            ay == points["peak_a"][2]
            bx == points["peak_b"][1]
            by == points["peak_b"][2]
            cx == points["peak_c"][1]
            cy == points["peak_c"][2]
        IN  [type |-> type, depth |-> depth, inclination_angle |-> inclination_angle,
             azimuth_angle |-> azimuth_angle,
             width |-> Max2(ax, Max2(bx, cx)), height |-> Max2(ay, Max2(by, cy)),
             radius |-> radius,
             points |-> [k \in {"peak_a", "peak_b", "peak_c"} |->
                           Pt(points[k][1], points[k][2])],
             area |-> [n |-> Abs(ax * by + bx * cy + cx * ay - ay * bx - by * cx - cy * ax),
                       d |-> 2],
             perimeter |-> SqrtFP((ax - bx) * (ax - bx) + (ay - by) * (ay - by))
                           + SqrtFP((bx - cx) * (bx - cx) + (by - cy) * (by - cy))
                           + SqrtFP((cx - ax) * (cx - ax) + (cy - ay) * (cy - ay))]
    ELSE
        \* not reached: __post_init__ raises for any other type
        [type |-> type, depth |-> depth, inclination_angle |-> inclination_angle,
         azimuth_angle |-> azimuth_angle, width |-> width, height |-> height,
         radius |-> radius, points |-> <<>>, area |-> [n |-> 0, d |-> 1],
         perimeter |-> 0]

(* ------------------------ distance_point_shadow.py ---------------------- *)

\* 5 sin(a) and 5 cos(a) of the angles of the model, in degrees; 37, 53, 127
\* and 143 stand for the angles of the 3-4-5 triangle (36.87, 53.13, ...)
Sin5(a) ==
    CASE Abs(a) \in {0, 180} -> 0
      [] Abs(a) \in {37, 143} -> IF a < 0 THEN -3 ELSE 3
      [] Abs(a) \in {53, 127} -> IF a < 0 THEN -4 ELSE 4
      [] OTHER -> IF a < 0 THEN -5 ELSE 5

Cos5(a) ==
    CASE Abs(a) = 0 -> 5
      [] Abs(a) = 37 -> 4
      [] Abs(a) = 53 -> 3
      [] Abs(a) = 90 -> 0
      [] Abs(a) = 127 -> -3
      [] Abs(a) = 143 -> -4
      [] OTHER -> -5

\* math.sin(math.radians(a)), math.cos(math.radians(a))
SinDeg(a) == Rat(Sin5(a), 5)
CosDeg(a) == Rat(Cos5(a), 5)

\* <<s_h, s_w, s_s>>
direction_cosine_of_sunlight(sun_altitude, sun_azimuth_angle) ==
    <<SinDeg(sun_altitude),
      RMul(CosDeg(sun_altitude), SinDeg(sun_azimuth_angle)),
      RMul(CosDeg(sun_altitude), CosDeg(sun_azimuth_angle))>>

\* <<w_z, w_w, w_s>>
direction_cosine_of_slope_normal_line(surface_inclination_angle, surface_azimuth_angle) ==
    <<CosDeg(surface_inclination_angle),
      RMul(SinDeg(surface_inclination_angle), SinDeg(surface_azimuth_angle)),
      RMul(SinDeg(surface_inclination_angle), CosDeg(surface_azimuth_angle))>>

cosine_sun_incidence_angle(s_h, s_w, s_s, w_z, w_w, w_s) ==
    RAdd(RAdd(RMul(s_h, w_z), RMul(s_w, w_w)), RMul(s_s, w_s))

tangent_profile_angle(s_h, s_w, s_s, cos_theta, surface_inclination_angle, surface_azimuth_angle) ==
    IF RLt(cos_theta, get_error_value) THEN NaN
    ELSE RDiv(RSub(RSub(RMul(s_h, SinDeg(surface_inclination_angle)),
                        RMul(s_w, RMul(CosDeg(surface_inclination_angle), SinDeg(surface_azimuth_angle)))),
                   RMul(s_s, RMul(CosDeg(surface_inclination_angle), CosDeg(surface_azimuth_angle)))),
              cos_theta)

tangent_sun_azimuth_angle_of_surface(s_w, s_s, cos_theta, surface_azimuth_angle) ==
    IF RLt(cos_theta, get_error_value) THEN NaN
    ELSE RDiv(RSub(RMul(s_w, CosDeg(surface_azimuth_angle)),
                   RMul(s_s, SinDeg(surface_azimuth_angle))),
              cos_theta)

\* seeded fault: the pair returned as (horizontal, vertical)
distance_of_points_shadow_swapped(s, sun_altitude, sun_azimuth_angle) ==
    LET sun == direction_cosine_of_sunlight(sun_altitude, sun_azimuth_angle)
        wall == direction_cosine_of_slope_normal_line(s.inclination_angle, s.azimuth_angle)
        cos_theta == cosine_sun_incidence_angle(sun[1], sun[2], sun[3], wall[1], wall[2], wall[3])
    IN  IF RLt(cos_theta, get_error_value) THEN <<NaN, NaN>>
        ELSE LET tan_phi == tangent_profile_angle(sun[1], sun[2], sun[3], cos_theta,
                                                  s.inclination_angle, s.azimuth_angle)
                 tan_gamma == tangent_sun_azimuth_angle_of_surface(sun[2], sun[3], cos_theta,
                                                                   s.azimuth_angle)
             IN  <<RMul(R(s.depth), tan_gamma), RMul(R(s.depth), tan_phi)>>

\* distance_of_points_shadow: <<distance_vertical, distance_horizontal>>
distance_of_points_shadow(s, sun_altitude, sun_azimuth_angle) ==
    LET sun == direction_cosine_of_sunlight(sun_altitude, sun_azimuth_angle)
        wall == direction_cosine_of_slope_normal_line(s.inclination_angle, s.azimuth_angle)
        cos_theta == cosine_sun_incidence_angle(sun[1], sun[2], sun[3], wall[1], wall[2], wall[3])
    IN  IF RLt(cos_theta, get_error_value) THEN <<NaN, NaN>>
        ELSE LET tan_phi == tangent_profile_angle(sun[1], sun[2], sun[3], cos_theta,
                                                  s.inclination_angle, s.azimuth_angle)
                 tan_gamma == tangent_sun_azimuth_angle_of_surface(sun[2], sun[3], cos_theta,
                                                                   s.azimuth_angle)
             IN  <<RMul(R(s.depth), tan_phi), RMul(R(s.depth), tan_gamma)>>

(* ----------------------- transmission_rate_base.py ---------------------- *)

\* seeded fault: d_x compared with the height and d_y with the width
base_transmission_rate_square_swapped(s, distance_vertical, distance_horizontal) ==
    IF isnan(distance_horizontal) /\ isnan(distance_vertical) THEN R(0)
    ELSE LET d_x == RAbs(distance_horizontal)
             d_y == RAbs(distance_vertical)
         IN  IF RGeq(d_x, R(s.height)) \/ RGeq(d_y, R(s.width)) THEN R(0)
             ELSE LET area_transmit == RMul(RSub(R(s.width), d_x), RSub(R(s.height), d_y))
                  IN  RDiv(area_transmit, Rat(s.area.n, s.area.d))

\* seeded fault: the distances taken without abs()
base_transmission_rate_square_signed(s, distance_vertical, distance_horizontal) ==
    IF isnan(distance_horizontal) /\ isnan(distance_vertical) THEN R(0)
    ELSE LET d_x == distance_horizontal
             d_y == distance_vertical
         IN  IF RGeq(d_x, R(s.width)) \/ RGeq(d_y, R(s.height)) THEN R(0)
             ELSE LET area_transmit == RMul(RSub(R(s.width), d_x), RSub(R(s.height), d_y))
                  IN  RDiv(area_transmit, Rat(s.area.n, s.area.d))

\* base_transmission_rate_square: the ratio, a float
base_transmission_rate_square(s, distance_vertical, distance_horizontal) ==
    IF isnan(distance_horizontal) /\ isnan(distance_vertical) THEN R(0)
    ELSE LET d_x == RAbs(distance_horizontal)
             d_y == RAbs(distance_vertical)
         IN  IF RGeq(d_x, R(s.width)) \/ RGeq(d_y, R(s.height)) THEN R(0)
             ELSE LET area_transmit == RMul(RSub(R(s.width), d_x), RSub(R(s.height), d_y))
                  IN  RDiv(area_transmit, Rat(s.area.n, s.area.d))


(* math.sin, math.acos, math.radians in fixed point *)

\* math.sin(x) for 0 <= x <= pi: by symmetry about pi/2, then the Taylor
\* polynomial to the seventh power
SinFP(x) ==
    LET y == IF 2 * x > PiFP THEN PiFP - x ELSE x
        y2 == (y * y) \div FP
        y3 == (y2 * y) \div FP
        y5 == (y3 * y2) \div FP
        y7 == (y5 * y2) \div FP
    IN  y - (y3 \div 6) + (y5 \div 120) - (y7 \div 5040)

\* math.cos(t) for 0 <= t <= pi/2
CosFP(t) == SinFP((PiFP \div 2) - t)

\* math.acos(c) for 0 <= c <= 1: the least t with cos(t) <= c, by bisection
RECURSIVE ACosIn(_, _, _)
ACosIn(c, lo, hi) ==
    IF lo >= hi THEN hi
    ELSE LET mid == (lo + hi) \div 2
         IN  IF CosFP(mid) <= c THEN ACosIn(c, lo, mid) ELSE ACosIn(c, mid + 1, hi)

ACosFP(c) == ACosIn(c, 0, PiFP \div 2)

\* math.radians(a)
RadiansFP(a) == (a * PiFP) \div (180 * FP)

\* math.sqrt(v ** 2 + h ** 2), in fixed point
DistanceFP(distance_vertical, distance_horizontal) ==
    LET q == RAdd(RMul(distance_vertical, distance_vertical),
                  RMul(distance_horizontal, distance_horizontal))
    IN  ISqrtIn((q.n * FP * FP) \div q.d, 0, ((q.n \div q.d) + 1) * FP)

\* the body both circle functions share; in_degrees: the older
\* transmission_factor_circle takes math.sin(math.radians(angle))
circle_rate(radius, area, distance_vertical, distance_horizontal, in_degrees) ==
    IF isnan(distance_horizontal) /\ isnan(distance_vertical) THEN [err |-> "none", rate |-> R(0)]
    ELSE LET distance == DistanceFP(distance_vertical, distance_horizontal)
         IN  IF distance >= 2 * radius * FP THEN
                 \* area_transmit = 0.0; rate = area_transmit / area
                 IF area.n = 0 THEN [err |-> "ZeroDivisionError", rate |-> R(0)]
                 ELSE [err |-> "none", rate |-> R(0)]
             ELSE IF 2 * radius * distance = 0 THEN
                 \* (distance ** 2) / (2 * radius * distance)
                 [err |-> "ZeroDivisionError", rate |-> R(0)]
             ELSE LET c == (distance * distance) \div (2 * radius * distance)
                      angle == 2 * ACosFP(c)
                      pi == Rat(PiFP, FP)
                      area_sector == RMul(RMul(pi, R(radius * radius)),
                                          RDiv(Rat(angle, FP), RMul(R(2), pi)))
                      sin_angle == IF in_degrees THEN SinFP(RadiansFP(angle)) ELSE SinFP(angle)
                      area_triangle == RMul(Rat(1, 2), RMul(R(radius * radius), Rat(sin_angle, FP)))
                      area_transmit == RMul(R(2), RSub(area_sector, area_triangle))
                  IN  [err |-> "none", rate |-> RDiv(area_transmit, Rat(area.n, area.d))]

\* base_transmission_rate_circle: [err, rate]
base_transmission_rate_circle(s, distance_vertical, distance_horizontal) ==
    circle_rate(s.radius, s.area, distance_vertical, distance_horizontal, FALSE)

\* hana_block_transmission_factor.transmission_factor_circle: [err, rate]
transmission_factor_circle(radius, distance_vertical, distance_horizontal) ==
    circle_rate(radius, [n |-> PiFP * radius * radius, d |-> FP],
                distance_vertical, distance_horizontal, TRUE)

(* the triangle *)

\* matrix_coeff of get_witch_peak_inside: the edges AB and AC as columns
matrix_coeff_of(points) ==
    <<<<RSub(points["peak_b"][1], points["peak_a"][1]), RSub(points["peak_c"][1], points["peak_a"][1])>>,
      <<RSub(points["peak_b"][2], points["peak_a"][2]), RSub(points["peak_c"][2], points["peak_a"][2])>>>>

Det(m) == RSub(RMul(m[1][1], m[2][2]), RMul(m[1][2], m[2][1]))

\* np.linalg.inv raises LinAlgError on a singular matrix
Singular(points) == Det(matrix_coeff_of(points)).n = 0

\* seeded fault: the test made strict, s > 0, t > 0, s + t < 1
judge_is_peak_inside_strict(matrix_coeff, matrix_const) ==
    LET det == Det(matrix_coeff)
        sol_s == RDiv(RSub(RMul(matrix_coeff[2][2], matrix_const[1]),
                           RMul(matrix_coeff[1][2], matrix_const[2])), det)
        sol_t == RDiv(RSub(RMul(matrix_coeff[1][1], matrix_const[2]),
                           RMul(matrix_coeff[2][1], matrix_const[1])), det)
    IN  RLt(R(0), sol_s) /\ RLt(R(0), sol_t) /\ RLt(RAdd(sol_s, sol_t), R(1))

\* seeded fault: the test without s + t <= 1
judge_is_peak_inside_cone(matrix_coeff, matrix_const) ==
    LET det == Det(matrix_coeff)
        sol_s == RDiv(RSub(RMul(matrix_coeff[2][2], matrix_const[1]),
                           RMul(matrix_coeff[1][2], matrix_const[2])), det)
        sol_t == RDiv(RSub(RMul(matrix_coeff[1][1], matrix_const[2]),
                           RMul(matrix_coeff[2][1], matrix_const[1])), det)
    IN  RGeq(sol_s, R(0)) /\ RGeq(sol_t, R(0))

\* judge_is_peak_inside: s, t from the inverse matrix; s >= 0, t >= 0, s + t <= 1
judge_is_peak_inside(matrix_coeff, matrix_const) ==
    LET det == Det(matrix_coeff)
        sol_s == RDiv(RSub(RMul(matrix_coeff[2][2], matrix_const[1]),
                           RMul(matrix_coeff[1][2], matrix_const[2])), det)
        sol_t == RDiv(RSub(RMul(matrix_coeff[1][1], matrix_const[2]),
                           RMul(matrix_coeff[2][1], matrix_const[1])), det)
    IN  RGeq(sol_s, R(0)) /\ RGeq(sol_t, R(0)) /\ RLeq(RAdd(sol_s, sol_t), R(1))

PSub(p, q) == <<RSub(p[1], q[1]), RSub(p[2], q[2])>>

\* get_witch_peak_inside: the judgement of each of the six points
get_witch_peak_inside(points) ==
    LET matrix_coeff == matrix_coeff_of(points)
    IN  [k \in {PeakNames[i] : i \in 1 .. 6} |->
            IF k \in {"peak_a", "peak_b", "peak_c"}
            THEN judge_is_peak_inside(matrix_coeff, PSub(points[k], points["peak_a_dash"]))
            ELSE judge_is_peak_inside(matrix_coeff, PSub(points[k], points["peak_a"]))]

AnyInside(results) == \E k \in DOMAIN results : results[k]

\* seeded fault: the last of the vertices judged inside
FirstInside_last(results) ==
    PeakNames[CHOOSE i \in 1 .. 6 :
                 /\ results[PeakNames[i]]
                 /\ \A j \in (i + 1) .. 6 : ~results[PeakNames[j]]]

\* [key for key, value in peak_check_results.items() if value is True][0]
FirstInside(results) ==
    PeakNames[CHOOSE i \in 1 .. 6 :
                 /\ results[PeakNames[i]]
                 /\ \A j \in 1 .. (i - 1) : ~results[PeakNames[j]]]

\* seeded fault: the far side taken from the triangle the inside vertex
\* belongs to
get_target_base_point_and_side_own(inside_peak_name) ==
    CASE inside_peak_name = "peak_a" ->
            [base_point |-> "peak_a_dash", side_point1 |-> "peak_b", side_point2 |-> "peak_c"]
      [] inside_peak_name = "peak_b" ->
            [base_point |-> "peak_b_dash", side_point1 |-> "peak_a", side_point2 |-> "peak_c"]
      [] inside_peak_name = "peak_c" ->
            [base_point |-> "peak_c_dash", side_point1 |-> "peak_a", side_point2 |-> "peak_b"]
      [] inside_peak_name = "peak_a_dash" ->
            [base_point |-> "peak_a", side_point1 |-> "peak_b_dash", side_point2 |-> "peak_c_dash"]
      [] inside_peak_name = "peak_b_dash" ->
            [base_point |-> "peak_b", side_point1 |-> "peak_a_dash", side_point2 |-> "peak_c_dash"]
      [] OTHER ->
            [base_point |-> "peak_c", side_point1 |-> "peak_a_dash", side_point2 |-> "peak_b_dash"]

get_target_base_point_and_side(inside_peak_name) ==
    CASE inside_peak_name = "peak_a" ->
            [base_point |-> "peak_a_dash", side_point1 |-> "peak_b_dash", side_point2 |-> "peak_c_dash"]
      [] inside_peak_name = "peak_b" ->
            [base_point |-> "peak_b_dash", side_point1 |-> "peak_a_dash", side_point2 |-> "peak_c_dash"]
      [] inside_peak_name = "peak_c" ->
            [base_point |-> "peak_c_dash", side_point1 |-> "peak_a_dash", side_point2 |-> "peak_b_dash"]
      [] inside_peak_name = "peak_a_dash" ->
            [base_point |-> "peak_a", side_point1 |-> "peak_b", side_point2 |-> "peak_c"]
      [] inside_peak_name = "peak_b_dash" ->
            [base_point |-> "peak_b", side_point1 |-> "peak_a", side_point2 |-> "peak_c"]
      [] OTHER ->
            [base_point |-> "peak_c", side_point1 |-> "peak_a", side_point2 |-> "peak_b"]

\* get_linear_equation: <<p, q, r>> of p x + q y + r = 0
get_linear_equation(x_1, y_1, x_2, y_2) ==
    IF RLt(RAbs(RSub(x_1, x_2)), get_error_value)
    THEN <<R(1), R(0), RSub(R(0), x_1)>>
    ELSE <<RDiv(RSub(y_2, y_1), RSub(x_2, x_1)),
           R(-1),
           RDiv(RSub(RMul(x_2, y_1), RMul(x_1, y_2)), RSub(x_2, x_1))>>

\* get_point_height_from_line: abs(p x + q y + r) / sqrt(p ** 2 + q ** 2).  The
\* height is carried as its square, which is rational.
get_point_height_from_line(x, y, p, q, r) ==
    LET num == RAdd(RAdd(RMul(p, x), RMul(q, y)), r)
    IN  RDiv(RMul(num, num), RAdd(RMul(p, p), RMul(q, q)))

\* seeded fault: the two heights returned as <<h_dash, h>>
get_point_heights_swapped(peak_check_results, points) ==
    LET inside_peak_name == FirstInside(peak_check_results)
        inside_point == points[inside_peak_name]
        target == get_target_base_point_and_side(inside_peak_name)
        base_point == points[target.base_point]
        side_point1 == points[target.side_point1]
        side_point2 == points[target.side_point2]
        pqr == get_linear_equation(side_point1[1], side_point1[2], side_point2[1], side_point2[2])
    IN  <<get_point_height_from_line(inside_point[1], inside_point[2], pqr[1], pqr[2], pqr[3]),
          get_point_height_from_line(base_point[1], base_point[2], pqr[1], pqr[2], pqr[3])>>

\* get_point_heights: <<h, h_dash>>, each as its square
get_point_heights(peak_check_results, points) ==
    LET inside_peak_name == FirstInside(peak_check_results)
        inside_point == points[inside_peak_name]
        target == get_target_base_point_and_side(inside_peak_name)
        base_point == points[target.base_point]
        side_point1 == points[target.side_point1]
        side_point2 == points[target.side_point2]
        pqr == get_linear_equation(side_point1[1], side_point1[2], side_point2[1], side_point2[2])
    IN  <<get_point_height_from_line(base_point[1], base_point[2], pqr[1], pqr[2], pqr[3]),
          get_point_height_from_line(inside_point[1], inside_point[2], pqr[1], pqr[2], pqr[3])>>

\* seeded fault: a displaced vertex already stored on the spec is displaced
\* again instead of being computed from the vertex
WithDash_accumulating(points, distance_vertical, distance_horizontal) ==
    LET from(name) == IF (name \o "_dash") \in DOMAIN points THEN points[name \o "_dash"]
                      ELSE points[name]
        moved(name) == <<RAdd(from(name)[1], distance_vertical),
                         RAdd(from(name)[2], distance_horizontal)>>
    IN  ("peak_a_dash" :> moved("peak_a")) @@ ("peak_b_dash" :> moved("peak_b"))
            @@ ("peak_c_dash" :> moved("peak_c")) @@ points

\* the vertex map after lines 94-99: the displaced vertices stored on the
\* spec; the vertical distance is added to [0], the horizontal one to [1]
WithDash(points, distance_vertical, distance_horizontal) ==
    LET moved(name) == <<RAdd(points[name][1], distance_vertical),
                         RAdd(points[name][2], distance_horizontal)>>
    IN  ("peak_a_dash" :> moved("peak_a")) @@ ("peak_b_dash" :> moved("peak_b"))
            @@ ("peak_c_dash" :> moved("peak_c")) @@ points

\* base_transmission_rate_triangle: [err, rate, points], points being the
\* spec's vertex map when the call ends
base_transmission_rate_triangle(s, distance_vertical, distance_horizontal) ==
    IF isnan(distance_horizontal) /\ isnan(distance_vertical)
    THEN [err |-> "none", rate |-> R(0), points |-> s.points]
    ELSE LET points == WithDash(s.points, distance_vertical, distance_horizontal)
         IN  IF Singular(points) THEN [err |-> "LinAlgError", rate |-> R(0), points |-> points]
             ELSE LET peak_check_results == get_witch_peak_inside(points)
                  IN  IF AnyInside(peak_check_results)
                      THEN LET hs == get_point_heights(peak_check_results, points)
                           IN  IF hs[1].n = 0
                               THEN [err |-> "ZeroDivisionError", rate |-> R(0), points |-> points]
                               ELSE [err |-> "none", rate |-> RDiv(hs[2], hs[1]), points |-> points]
                      ELSE [err |-> "none", rate |-> R(0), points |-> points]

(* the triangle of hana_block_transmission_factor.py *)

\* the three vertices alone, as the callers of transmission_factor_triangle
\* write them; also the vertex map of a spec that no evaluation has touched
WithoutDash(points) ==
    [k \in (DOMAIN points) \ {"peak_a_dash", "peak_b_dash", "peak_c_dash"} |-> points[k]]

\* hana_block_transmission_factor.get_linear_equation: [err, pqr]; it has no
\* branch for x_1 = x_2 and divides by x_2 - x_1
transmission_factor_get_linear_equation(coordinates_point1, coordinates_point2) ==
    IF RSub(coordinates_point2[1], coordinates_point1[1]).n = 0
    THEN [err |-> "ZeroDivisionError", pqr |-> <<R(0), R(0), R(0)>>]
    ELSE [err |-> "none",
          pqr |-> <<RDiv(RSub(coordinates_point2[2], coordinates_point1[2]),
                         RSub(coordinates_point2[1], coordinates_point1[1])),
                    R(-1),
                    RDiv(RSub(RMul(coordinates_point2[1], coordinates_point1[2]),
                              RMul(coordinates_point1[1], coordinates_point2[2])),
                         RSub(coordinates_point2[1], coordinates_point1[1]))>>]

\* hana_block_transmission_factor.get_point_heights: [err, h, h_dash], the
\* heights as their squares
transmission_factor_get_point_heights(peak_check_results, coordinates) ==
    LET inside_peak_name == FirstInside(peak_check_results)
        inside_point == coordinates[inside_peak_name]
        target == get_target_base_point_and_side(inside_peak_name)
        base_point == coordinates[target.base_point]
        line == transmission_factor_get_linear_equation(coordinates[target.side_point1],
                                                        coordinates[target.side_point2])
    IN  IF line.err # "none" THEN [err |-> line.err, h |-> R(0), h_dash |-> R(0)]
        ELSE [err |-> "none",
              h |-> get_point_height_from_line(base_point[1], base_point[2],
                                               line.pqr[1], line.pqr[2], line.pqr[3]),
              h_dash |-> get_point_height_from_line(inside_point[1], inside_point[2],
                                                    line.pqr[1], line.pqr[2], line.pqr[3])]

\* hana_block_transmission_factor.transmission_factor_triangle: [err, rate,
\* points], points being the caller's coordinates when the call ends
transmission_factor_triangle(coordinates, distance_vertical, distance_horizontal) ==
    IF isnan(distance_horizontal) /\ isnan(distance_vertical)
    THEN [err |-> "none", rate |-> R(0), points |-> coordinates]
    ELSE LET points == WithDash(coordinates, distance_vertical, distance_horizontal)
         IN  IF Singular(points) THEN [err |-> "LinAlgError", rate |-> R(0), points |-> points]
             ELSE LET peak_check_results == get_witch_peak_inside(points)
                  IN  IF AnyInside(peak_check_results)
                      THEN LET hs == transmission_factor_get_point_heights(
                                         peak_check_results, points)
                           IN  IF hs.err # "none"
                               THEN [err |-> hs.err, rate |-> R(0), points |-> points]
                               ELSE IF hs.h.n = 0
                               THEN [err |-> "ZeroDivisionError", rate |-> R(0), points |-> points]
                               ELSE [err |-> "none", rate |-> RDiv(hs.h_dash, hs.h),
                                     points |-> points]
                      ELSE [err |-> "none", rate |-> R(0), points |-> points]

(* ------------------ transmission_rate_base_mesh_method.py --------------- *)

\* resolution = 350 in base_transmission_rate
resolution == 350

\* get_pixel: int(resolution * length / 25.4)
get_pixel(length, res) == Trunc(res * length.n * 10, 254 * length.d)

\* get_cross_product(point1, point2, my_point)
get_cross_product(point1, point2, my_point) ==
    LET vect_side == <<point1[1] - point2[1], point1[2] - point2[2]>>
        vect_point == <<point1[1] - my_point[1], point1[2] - my_point[2]>>
    IN  vect_side[1] * vect_point[2] - vect_side[2] * vect_point[1]

\* the pixel position of a vertex of the spec, moved by (x_pixels, y_pixels)
PixelPoint(s, k, x_pixels, y_pixels, res) ==
    <<get_pixel(s.points[k][1], res) + x_pixels, get_pixel(s.points[k][2], res) + y_pixels>>

is_inside_square(s, x_position, y_position, x_pixels, y_pixels, res) ==
    LET my_point == <<x_position, y_position>>
        point_a == PixelPoint(s, "peak_a", x_pixels, y_pixels, res)
        point_b == PixelPoint(s, "peak_b", x_pixels, y_pixels, res)
        point_c == PixelPoint(s, "peak_c", x_pixels, y_pixels, res)
        point_d == PixelPoint(s, "peak_d", x_pixels, y_pixels, res)
    IN  IF /\ get_cross_product(point_a, point_b, my_point) >= 0
           /\ get_cross_product(point_b, point_c, my_point) >= 0
           /\ get_cross_product(point_c, point_d, my_point) >= 0
           /\ get_cross_product(point_d, point_a, my_point) >= 0
        THEN 1 ELSE 0

is_inside_triangle(s, x_position, y_position, x_pixels, y_pixels, res) ==
    LET my_point == <<x_position, y_position>>
        point_a == PixelPoint(s, "peak_a", x_pixels, y_pixels, res)
        point_b == PixelPoint(s, "peak_b", x_pixels, y_pixels, res)
        point_c == PixelPoint(s, "peak_c", x_pixels, y_pixels, res)
        cross_product_ab == get_cross_product(point_a, point_b, my_point)
        cross_product_bc == get_cross_product(point_b, point_c, my_point)
        cross_product_ca == get_cross_product(point_c, point_a, my_point)
    IN  IF cross_product_ab >= 0 /\ cross_product_bc >= 0 /\ cross_product_ca >= 0 THEN 1
        ELSE IF cross_product_ab < 0 /\ cross_product_bc < 0 /\ cross_product_ca < 0 THEN 1
        ELSE 0

\* distance <= get_pixel(radius): compared as squares, both sides being >= 0
is_inside_circle(s, x_position, y_position, x_pixels, y_pixels, res) ==
    LET point_a == PixelPoint(s, "peak_a", x_pixels, y_pixels, res)
        dist2 == (x_position - point_a[1]) * (x_position - point_a[1])
                 + (y_position - point_a[2]) * (y_position - point_a[2])
        rad == get_pixel(R(s.radius), res)
    IN  IF rad >= 0 /\ dist2 <= rad * rad THEN 1 ELSE 0

\* the side of the mesh, px
MeshSide(s, res) == get_pixel(R(Max2(s.width, s.height)), res)

\* make_plot_in_mesh raises when the mesh has fewer than two rows: np.zeros of a
\* negative size (ValueError), plotted_mesh[0] or plotted_mesh[1] of a shorter
\* array (IndexError)
MeshRaises(s, res) ==
    IF MeshSide(s, res) < 0 THEN "ValueError"
    ELSE IF MeshSide(s, res) < 2 THEN "IndexError"
    ELSE "none"

\* make_plot_in_mesh: the set of the pixels <<x, y>> plotted 1
make_plot_in_mesh(s, res, distance_vertical, distance_horizontal) ==
    LET pixels == MeshSide(s, res)
        x_pixels == get_pixel(distance_vertical, res)
        y_pixels == get_pixel(distance_horizontal, res)
    IN  {p \in (0 .. pixels - 1) \X (0 .. pixels - 1) :
            IF s.type = "square" THEN is_inside_square(s, p[1], p[2], x_pixels, y_pixels, res) = 1
            ELSE IF s.type = "circle" THEN is_inside_circle(s, p[1], p[2], x_pixels, y_pixels, res) = 1
            ELSE is_inside_triangle(s, p[1], p[2], x_pixels, y_pixels, res) = 1}

\* seeded fault: the mesh method without the test for the undefined sentinel
base_transmission_rate_unguarded(s, distance_vertical, distance_horizontal) ==
    IF MeshRaises(s, resolution) # "none" THEN [err |-> MeshRaises(s, resolution), rate |-> R(0)]
    ELSE LET mesh_1 == make_plot_in_mesh(s, resolution, R(0), R(0))
             mesh_2 == make_plot_in_mesh(s, resolution, distance_vertical, distance_horizontal)
             overlap_pixels == Cardinality(mesh_1 \cap mesh_2)
             all_pixels == Cardinality(mesh_1)
         IN  IF all_pixels > 0 THEN [err |-> "none", rate |-> Rat(overlap_pixels, all_pixels)]
             ELSE [err |-> "ValueError", rate |-> R(0)]

\* seeded fault: the mesh method answering 0.0 where no pixel is plotted
base_transmission_rate_lenient(s, distance_vertical, distance_horizontal) ==
    IF isnan(distance_horizontal) /\ isnan(distance_vertical) THEN [err |-> "none", rate |-> R(0)]
    ELSE LET mesh_1 == make_plot_in_mesh(s, resolution, R(0), R(0))
             mesh_2 == make_plot_in_mesh(s, resolution, distance_vertical, distance_horizontal)
             overlap_pixels == Cardinality(mesh_1 \cap mesh_2)
             all_pixels == Cardinality(mesh_1)
         IN  IF all_pixels > 0 THEN [err |-> "none", rate |-> Rat(overlap_pixels, all_pixels)]
             ELSE [err |-> "none", rate |-> R(0)]

\* base_transmission_rate of the mesh method: [err, rate]
base_transmission_rate(s, distance_vertical, distance_horizontal) ==
    IF isnan(distance_horizontal) /\ isnan(distance_vertical) THEN [err |-> "none", rate |-> R(0)]
    ELSE IF MeshRaises(s, resolution) # "none" THEN [err |-> MeshRaises(s, resolution), rate |-> R(0)]
    ELSE LET mesh_1 == make_plot_in_mesh(s, resolution, R(0), R(0))
             mesh_2 == make_plot_in_mesh(s, resolution, distance_vertical, distance_horizontal)
             overlap_pixels == Cardinality(mesh_1 \cap mesh_2)
             all_pixels == Cardinality(mesh_1)
         IN  IF all_pixels > 0 THEN [err |-> "none", rate |-> Rat(overlap_pixels, all_pixels)]
             ELSE [err |-> "ValueError", rate |-> R(0)]

(* ------------------------------- inputs -------------------------------- *)

Kinds == {"square", "circle", "triangle"}

Sizes == 0 .. MaxSize

Radii == 0 .. MaxRadius

\* <<inclination_angle, azimuth_angle>> of the block; every triangle of the
\* source's runs is built with inclination 90, azimuth 0
Orientations(type) == IF type = "triangle" THEN {<<90, 0>>} ELSE {<<90, 0>>, <<53, 37>>}

SunAltitudes == {-37, 0, 37, 53, 90}

SunAzimuths == {-90, -53, 0, 37, 90, 180}

\* the displacement components handed to the overlap functions: whole
\* millimetres, and half a millimetre either way
Dists == {R(k) : k \in (-MaxDist) .. MaxDist} \cup {Rat(-1, 2), Rat(1, 2)}

\* a defined pair, or the undefined sentinel (both NaN)
Displacements == (Dists \X Dists) \cup {<<NaN, NaN>>}

MeshDists == {Rat(-1, 2), R(0), R(1)}

MeshDisplacements == (MeshDists \X MeshDists) \cup {<<NaN, NaN>>}

Tri(ax, ay, bx, by, cx, cy) ==
    [k \in {"peak_a", "peak_b", "peak_c"} |->
        CASE k = "peak_a" -> <<ax, ay>> [] k = "peak_b" -> <<bx, by>> [] OTHER -> <<cx, cy>>]

\* the triangles of the source's own runs, scaled to MaxSize, three more
\* shapes (one of them taller than wide), and the degenerate ones (collinear,
\* duplicate vertices)
Triangles ==
    {Tri(0, 0, 0, MaxSize, MaxSize, MaxSize),
     Tri(0, 0, MaxSize, MaxSize, 0, MaxSize),
     Tri(0, 1, MaxSize, 1, 1, 0),
     Tri(0, 0, MaxSize, 0, 0, MaxSize),
     Tri(0, 0, 1, 0, 0, MaxSize),
     Tri(0, 0, 1, 1, MaxSize, MaxSize),
     Tri(0, 0, 0, 0, MaxSize, 0)}

\* the keyword arguments of HanaBlockSpec(...), the dataclass defaults for
\* those a type does not take
BuildParams ==
    {[type |-> "square", width |-> w, height |-> h, radius |-> 0, points |-> <<>>] :
        w \in Sizes, h \in Sizes}
    \cup {[type |-> "circle", width |-> 0, height |-> 0, radius |-> r, points |-> <<>>] :
            r \in Radii}
    \cup {[type |-> "triangle", width |-> 0, height |-> 0, radius |-> 0, points |-> t] :
            t \in Triangles}
    \cup {[type |-> "hexagon", width |-> 1, height |-> 1, radius |-> 0, points |-> <<>>]}

(* ------------------------------- actions ------------------------------- *)

NoArgs == [call |-> "none"]

Init ==
    /\ calc_mode \in {"analysis", "mesh"}
    /\ spec = NoSpec
    /\ op = "none"
    /\ args = NoArgs
    /\ ret = R(0)
    /\ err = "none"
    /\ pc = <<>>
    /\ frame = <<>>
    /\ hana_block = NoBlock
    /\ files = {}

\* the caller may make its next call
Ready == op = "idle"

\* HanaBlockSpec(type=..., ...): the dataclass is built and __post_init__ runs
Build ==
    /\ spec = NoSpec
    /\ \E b \in BuildParams :
       \E o \in Orientations(b.type) :
          /\ args' = [call |-> "HanaBlockSpec", type |-> b.type, width |-> b.width,
                      height |-> b.height, radius |-> b.radius, points |-> b.points]
          /\ IF PostInitRaises(b.type)
             THEN /\ spec' = NoSpec
                  /\ err' = "ValueError"
             ELSE /\ spec' = PostInit(b.type, MaxDepth, o[1], o[2], b.width, b.height,
                                      b.radius, b.points)
                  /\ err' = "none"
    /\ op' = "build"
    /\ ret' = R(0)
    /\ UNCHANGED calc_mode
    /\ UNCHANGED run_vars

\* distance_of_points_shadow(spec, sun_altitude, sun_azimuth_angle)
Shadow ==
    /\ Ready
    /\ \E alt \in SunAltitudes, az \in SunAzimuths :
          /\ args' = [call |-> "distance_of_points_shadow", sun_altitude |-> alt,
                      sun_azimuth_angle |-> az]
          /\ ret' = distance_of_points_shadow(spec, alt, az)
    /\ op' = "shadow"
    /\ err' = "none"
    /\ UNCHANGED <<calc_mode, spec>>
    /\ UNCHANGED run_vars

RateArgs(name, dist) ==
    [call |-> name, distance_vertical |-> dist[1], distance_horizontal |-> dist[2]]

\* base_transmission_rate_square(spec, distance_vertical, distance_horizontal)
RateSquare ==
    /\ Ready
    /\ calc_mode = "analysis"
    /\ spec.type = "square"
    /\ \E dist \in Displacements :
          /\ args' = RateArgs("base_transmission_rate_square", dist)
          /\ ret' = base_transmission_rate_square(spec, dist[1], dist[2])
    /\ op' = "rate_square"
    /\ err' = "none"
    /\ UNCHANGED <<calc_mode, spec>>
    /\ UNCHANGED run_vars

\* base_transmission_rate_circle(spec, distance_vertical, distance_horizontal)
RateCircle ==
    /\ Ready
    /\ calc_mode = "analysis"
    /\ spec.type = "circle"
    /\ \E dist \in Displacements :
          LET r == base_transmission_rate_circle(spec, dist[1], dist[2])
          IN  /\ args' = RateArgs("base_transmission_rate_circle", dist)
              /\ ret' = r.rate
              /\ err' = r.err
    /\ op' = "rate_circle"
    /\ UNCHANGED <<calc_mode, spec>>
    /\ UNCHANGED run_vars

\* transmission_factor_circle(radius, distance_vertical, distance_horizontal)
FactorCircle ==
    /\ Ready
    /\ calc_mode = "analysis"
    /\ spec.type = "circle"
    /\ \E dist \in Displacements :
          LET r == transmission_factor_circle(spec.radius, dist[1], dist[2])
          IN  /\ args' = RateArgs("transmission_factor_circle", dist)
              /\ ret' = r.rate
              /\ err' = r.err
    /\ op' = "factor_circle"
    /\ UNCHANGED <<calc_mode, spec>>
    /\ UNCHANGED run_vars

\* base_transmission_rate_triangle(spec, distance_vertical, distance_horizontal):
\* the displaced vertices stay on the spec
RateTriangle ==
    /\ Ready
    /\ calc_mode = "analysis"
    /\ spec.type = "triangle"
    /\ \E dist \in Displacements :
          LET r == base_transmission_rate_triangle(spec, dist[1], dist[2])
          IN  /\ args' = RateArgs("base_transmission_rate_triangle", dist)
              /\ ret' = r.rate
              /\ err' = r.err
              /\ spec' = [spec EXCEPT !.points = r.points]
    /\ op' = "rate_triangle"
    /\ UNCHANGED calc_mode
    /\ UNCHANGED run_vars

\* transmission_factor_triangle(coordinates, distance_vertical,
\* distance_horizontal) of hana_block_transmission_factor, called with a
\* dict of the three vertices of the spec
FactorTriangle ==
    /\ Ready
    /\ calc_mode = "analysis"
    /\ spec.type = "triangle"
    /\ \E dist \in Displacements :
          LET r == transmission_factor_triangle(WithoutDash(spec.points), dist[1], dist[2])
          IN  /\ args' = RateArgs("transmission_factor_triangle", dist)
              /\ ret' = r.rate
              /\ err' = r.err
    /\ op' = "factor_triangle"
    /\ UNCHANGED <<calc_mode, spec>>
    /\ UNCHANGED run_vars

\* base_transmission_rate(spec, distance_vertical, distance_horizontal), mesh method
RateMesh ==
    /\ Ready
    /\ calc_mode = "mesh"
    /\ \E dist \in MeshDisplacements :
          LET r == base_transmission_rate(spec, dist[1], dist[2])
          IN  /\ args' = RateArgs("base_transmission_rate", dist)
              /\ ret' = r.rate
              /\ err' = r.err
    /\ op' = "rate_mesh"
    /\ UNCHANGED <<calc_mode, spec>>
    /\ UNCHANGED run_vars

\* the caller has taken the result of the call (the spec that was built, a
\* displacement, a ratio) and goes on to its next step; an exception ends the
\* run
NextStep ==
    /\ op \in {"build", "shadow", "rate_square", "rate_circle", "factor_circle", "rate_triangle",
              "factor_triangle", "rate_mesh"}
    /\ err = "none"
    /\ op' = "idle"
    /\ args' = NoArgs
    /\ ret' = R(0)
    /\ UNCHANGED <<calc_mode, spec, err>>
    /\ UNCHANGED run_vars

Next ==
    \/ Build
    \/ Shadow
    \/ RateSquare
    \/ RateCircle
    \/ FactorCircle
    \/ RateTriangle
    \/ FactorTriangle
    \/ RateMesh
    \/ NextStep

Spec == Init /\ [][Next]_vars

(* ------------------------------ properties ----------------------------- *)

\* the arguments of the last call are a defined displacement
DefinedArgs == ~isnan(args.distance_vertical) /\ ~isnan(args.distance_horizontal)

\* the arguments of the last call are the undefined sentinel
UndefinedArgs == isnan(args.distance_vertical) /\ isnan(args.distance_horizontal)

\* the last call was made with displacement (0, 0)
ZeroArgs == args.distance_vertical = R(0) /\ args.distance_horizontal = R(0)

\* the sign of (p - o) x (q - o)
Cross(o, p, q) ==
    RSub(RMul(RSub(p[1], o[1]), RSub(q[2], o[2])),
         RMul(RSub(p[2], o[2]), RSub(q[1], o[1]))).n

\* x lies in the triangle a b c: in its interior (strict), or in its interior
\* or on its boundary
InTriangle(x, a, b, c, strict) ==
    LET c1 == Cross(a, b, x)
        c2 == Cross(b, c, x)
        c3 == Cross(c, a, x)
    IN  IF strict
        THEN (c1 > 0 /\ c2 > 0 /\ c3 > 0) \/ (c1 < 0 /\ c2 < 0 /\ c3 < 0)
        ELSE (c1 >= 0 /\ c2 >= 0 /\ c3 >= 0) \/ (c1 <= 0 /\ c2 <= 0 /\ c3 <= 0)

\* none of A, B, C lies in A'B'C' and none of A', B', C' lies in ABC
NoVertexInside(points, strict) ==
    /\ \A k \in {"peak_a", "peak_b", "peak_c"} :
          ~InTriangle(points[k], points["peak_a_dash"], points["peak_b_dash"],
                      points["peak_c_dash"], strict)
    /\ \A k \in {"peak_a_dash", "peak_b_dash", "peak_c_dash"} :
          ~InTriangle(points[k], points["peak_a"], points["peak_b"], points["peak_c"], strict)

\* C1: for every kind of opening and for both methods (the analytic
\* base_transmission_rate_square/_circle/_triangle and the mesh method's
\* base_transmission_rate), a call with the undefined sentinel (both distances
\* NaN) returns, and returns exactly 0.0.
C1_UndefinedGivesZero ==
    (op \in {"rate_square", "rate_circle", "rate_triangle", "rate_mesh"} /\ UndefinedArgs)
        => (err = "none" /\ ret = R(0))

\* a mesh call on a circle with the sentinel has returned 0.0
C1_Witness ==
    /\ op = "rate_mesh"
    /\ spec.type = "circle"
    /\ spec.radius > 0
    /\ UndefinedArgs
    /\ ret = R(0)

\* C2: distance_of_points_shadow returns the undefined sentinel (both NaN)
\* exactly when cos(theta) < 0.0001; otherwise it returns the pair
\* (depth tan(phi), depth tan(gamma)) in the order (vertical, horizontal), both
\* defined.  It never returns a pair with only one component undefined.
C2_ShadowSentinelOrPair ==
    op = "shadow" =>
        LET sun == direction_cosine_of_sunlight(args.sun_altitude, args.sun_azimuth_angle)
            wall == direction_cosine_of_slope_normal_line(spec.inclination_angle,
                                                          spec.azimuth_angle)
            cos_theta == cosine_sun_incidence_angle(sun[1], sun[2], sun[3],
                                                    wall[1], wall[2], wall[3])
        IN  /\ (isnan(ret[1]) /\ isnan(ret[2])) <=> RLt(cos_theta, Rat(1, 10000))
            /\ isnan(ret[1]) <=> isnan(ret[2])
            /\ ~RLt(cos_theta, Rat(1, 10000)) =>
                  /\ ret[1] = RMul(R(spec.depth),
                                   tangent_profile_angle(sun[1], sun[2], sun[3], cos_theta,
                                                         spec.inclination_angle,
                                                         spec.azimuth_angle))
                  /\ ret[2] = RMul(R(spec.depth),
                                   tangent_sun_azimuth_angle_of_surface(sun[2], sun[3], cos_theta,
                                                                        spec.azimuth_angle))

\* a shadow with two defined, nonzero, different components has been returned
C2_Witness ==
    /\ op = "shadow"
    /\ ~isnan(ret[1])
    /\ ~isnan(ret[2])
    /\ ret[1].n # 0
    /\ ret[2].n # 0
    /\ ret[1] # ret[2]

\* C3: for a circle of radius r > 0 and displacement (0, 0),
\* base_transmission_rate_circle, and likewise transmission_factor_circle,
\* returns the ratio 1.0.  (The code divides 0.0 by 0.0 there.)
C3_CircleZeroDisplacementIsOne ==
    (op \in {"rate_circle", "factor_circle"} /\ spec.radius > 0 /\ ZeroArgs)
        => (err = "none" /\ ret = R(1))

C5_TriangleZeroDisplacementIsOne ==
    (op = "rate_triangle" /\ spec.area.n # 0 /\ ZeroArgs)
        => (err = "none" /\ ret = R(1))

\* the triangle of the source's own runs, unmoved, has given 1.0
C5_Witness ==
    /\ op = "rate_triangle"
    /\ spec.area.n # 0
    /\ ZeroArgs
    /\ spec.points["peak_b"] = Pt(0, MaxSize)
    /\ ret = R(1)

\* C6: for a square of width w > 0 and height h > 0 and a defined displacement,
\* base_transmission_rate_square returns 0.0 when |horizontal| >= w or
\* |vertical| >= h, and otherwise (w - |horizontal|)(h - |vertical|) / (w h);
\* it returns 1.0 for the displacement (0, 0).
C6_SquareFormula ==
    (op = "rate_square" /\ spec.width > 0 /\ spec.height > 0 /\ DefinedArgs) =>
        LET w == spec.width
            h == spec.height
            dx == RAbs(args.distance_horizontal)
            dy == RAbs(args.distance_vertical)
        IN  /\ err = "none"
            /\ ret = IF dx.n >= w * dx.d \/ dy.n >= h * dy.d THEN R(0)
                     ELSE Rat((w * dx.d - dx.n) * (h * dy.d - dy.n), w * h * dx.d * dy.d)
            /\ ZeroArgs => ret = R(1)

\* an oblong square, moved by different amounts along its two sides, still
\* lets a part of the light through
C6_Witness ==
    /\ op = "rate_square"
    /\ spec.width > spec.height
    /\ spec.height > 0
    /\ DefinedArgs
    /\ RGeq(RAbs(args.distance_horizontal), R(spec.height))
    /\ args.distance_vertical.n # 0
    /\ RLt(R(0), ret)
    /\ RLt(ret, R(1))

\* C7: for a fixed square, the ratio of base_transmission_rate_square does not
\* increase when |horizontal| grows with vertical fixed, nor when |vertical|
\* grows with horizontal fixed, the drop to 0.0 at the threshold included.
C7_SquareMonotone ==
    (op = "rate_square" /\ DefinedArgs) =>
        \A d \in Dists :
            /\ RLeq(RAbs(args.distance_horizontal), RAbs(d)) =>
                  RLeq(base_transmission_rate_square(spec, args.distance_vertical, d), ret)
            /\ RLeq(RAbs(args.distance_vertical), RAbs(d)) =>
                  RLeq(base_transmission_rate_square(spec, d, args.distance_horizontal), ret)

\* a ratio strictly between 0 and 1 that a larger displacement brings down to
\* a smaller positive ratio, and a yet larger one to 0.0
C7_Witness ==
    /\ op = "rate_square"
    /\ DefinedArgs
    /\ RLt(ret, R(1))
    /\ \E d1, d2 \in Dists :
          /\ RLt(RAbs(args.distance_horizontal), RAbs(d1))
          /\ RLt(RAbs(d1), RAbs(d2))
          /\ RLt(R(0), base_transmission_rate_square(spec, args.distance_vertical, d1))
          /\ RLt(base_transmission_rate_square(spec, args.distance_vertical, d1), ret)
          /\ base_transmission_rate_square(spec, args.distance_vertical, d2) = R(0)

\* C8: for an opening of positive dimensions (a triangle of nonzero area), a
\* defined displacement and either method, the ratio that a call returns is
\* between 0 and 1, both included.  (A call that raises returns no ratio: the
\* analytic circle at displacement (0, 0), see C3.)
C8_RatioInUnitInterval ==
    (/\ op \in {"rate_square", "rate_circle", "rate_triangle", "rate_mesh"}
     /\ spec.width > 0
     /\ spec.height > 0
     /\ spec.area.n # 0
     /\ DefinedArgs
     /\ err = "none")
        => (RLeq(R(0), ret) /\ RLeq(ret, R(1)))

\* the mesh method has returned a ratio strictly between 0 and 1 for a triangle
C8_Witness ==
    /\ op = "rate_mesh"
    /\ spec.type = "triangle"
    /\ spec.area.n # 0
    /\ DefinedArgs
    /\ err = "none"
    /\ RLt(R(0), ret)
    /\ RLt(ret, R(1))

\* C9: building fails with an error, and yields no spec, when a square has a
\* non-positive width or height, a circle a non-positive radius, or a triangle
\* three collinear vertices (duplicates included).  (__post_init__ validates
\* none of these.)
C9_InvalidParameterRejected ==
    (/\ op = "build"
     /\ \/ args.type = "square" /\ (args.width <= 0 \/ args.height <= 0)
        \/ args.type = "circle" /\ args.radius <= 0
        \/ /\ args.type = "triangle"
           /\ (args.points["peak_b"][1] - args.points["peak_a"][1])
                 * (args.points["peak_c"][2] - args.points["peak_a"][2])
              = (args.points["peak_b"][2] - args.points["peak_a"][2])
                 * (args.points["peak_c"][1] - args.points["peak_a"][1]))
        => (err # "none" /\ spec = NoSpec)

\* C10: building with a type other than 'square', 'circle', 'triangle' fails
\* with an error at construction, and no spec of an unrecognized type exists.
C10_UnknownKindRejected ==
    /\ (op = "build" /\ args.type \notin {"square", "circle", "triangle"})
          => (err # "none" /\ spec = NoSpec)
    /\ spec # NoSpec => spec.type \in {"square", "circle", "triangle"}

\* the construction of a 'hexagon' has raised ValueError and left no spec
C10_Witness ==
    /\ op = "build"
    /\ args.type = "hexagon"
    /\ err = "ValueError"
    /\ spec = NoSpec

\* C11: evaluating the triangle does not modify the opening: when
\* base_transmission_rate_triangle has returned, the spec's vertex map holds
\* exactly peak_a, peak_b, peak_c.  (The code stores the three displaced
\* vertices on spec.points.)
C11_TriangleLeavesPointsAlone ==
    (op = "rate_triangle" /\ err = "none")
        => DOMAIN spec.points = {"peak_a", "peak_b", "peak_c"}

(* ---------- two evaluations of the triangle on one spec, concurrently ---- *)

\* the two evaluations
Threads == {1, 2}

\* the displacements the two evaluations are called with
ConcDisplacements ==
    {<<Rat(1, 2), Rat(1, 2)>>, <<R(0), R(1)>>, <<R(1), R(0)>>, <<R(-1), Rat(1, 2)>>}

\* the triangles of nonzero area, as HanaBlockSpec builds them
TriangleSpecs ==
    {PostInit("triangle", MaxDepth, 90, 0, 0, 0, 0, t) :
        t \in {u \in Triangles : ~Singular(PostInit("triangle", MaxDepth, 90, 0, 0, 0, 0, u).points)}}

\* both evaluations have been called with a defined displacement, each its
\* own, on the same spec, and stand before line 94
InitConc ==
    /\ calc_mode = "analysis"
    /\ spec \in TriangleSpecs
    /\ op = "none"
    /\ args = NoArgs
    /\ ret = R(0)
    /\ err = "none"
    /\ pc = [t \in Threads |-> "store_a"]
    /\ \E d1, d2 \in ConcDisplacements :
          /\ d1 # d2
          /\ frame = [t \in Threads |->
                        [distance_vertical |-> IF t = 1 THEN d1[1] ELSE d2[1],
                         distance_horizontal |-> IF t = 1 THEN d1[2] ELSE d2[2],
                         peak_check_results |-> <<>>,
                         inside_peak_name |-> "none",
                         rate |-> R(0),
                         err |-> "none"]]
    /\ hana_block = NoBlock
    /\ files = {}

\* one of lines 94-99: spec.points[name + '_dash'] = (x + distance_vertical,
\* y + distance_horizontal)
StoreDash(t, at, name, next) ==
    /\ pc[t] = at
    /\ spec' = [spec EXCEPT !.points =
                  [k \in (DOMAIN spec.points) \cup {name \o "_dash"} |->
                      IF k = name \o "_dash"
                      THEN <<RAdd(spec.points[name][1], frame[t].distance_vertical),
                             RAdd(spec.points[name][2], frame[t].distance_horizontal)>>
                      ELSE spec.points[k]]]
    /\ pc' = [pc EXCEPT ![t] = next]
    /\ UNCHANGED <<calc_mode, op, args, ret, err, frame, hana_block, files>>

TStoreA(t) == StoreDash(t, "store_a", "peak_a", "store_b")

TStoreB(t) == StoreDash(t, "store_b", "peak_b", "store_c")

TStoreC(t) == StoreDash(t, "store_c", "peak_c", "judge")

\* line 102: peak_check_results = get_witch_peak_inside(spec.points)
TJudge(t) ==
    /\ pc[t] = "judge"
    /\ frame' = [frame EXCEPT ![t].peak_check_results = get_witch_peak_inside(spec.points)]
    /\ pc' = [pc EXCEPT ![t] = "heights"]
    /\ UNCHANGED <<calc_mode, spec, op, args, ret, err, hana_block, files>>

\* lines 105-114: the heights read from spec.points, and the ratio returned;
\* inside_peak_name is the local of get_point_heights (line 206)
THeights(t) ==
    /\ pc[t] = "heights"
    /\ IF AnyInside(frame[t].peak_check_results)
       THEN LET hs == get_point_heights(frame[t].peak_check_results, spec.points)
                inside_peak_name == FirstInside(frame[t].peak_check_results)
            IN  IF hs[1].n = 0
                THEN frame' = [frame EXCEPT ![t].err = "ZeroDivisionError",
                                            ![t].inside_peak_name = inside_peak_name]
                ELSE frame' = [frame EXCEPT ![t].rate = RDiv(hs[2], hs[1]),
                                            ![t].inside_peak_name = inside_peak_name]
       ELSE frame' = [frame EXCEPT ![t].rate = R(0)]
    /\ pc' = [pc EXCEPT ![t] = "done"]
    /\ UNCHANGED <<calc_mode, spec, op, args, ret, err, hana_block, files>>

NextConc ==
    \E t \in Threads :
        \/ TStoreA(t)
        \/ TStoreB(t)
        \/ TStoreC(t)
        \/ TJudge(t)
        \/ THeights(t)

SpecConc == InitConc /\ [][NextConc]_vars

\* C12: when two evaluations of base_transmission_rate_triangle run
\* concurrently on one spec with different displacements, each returns, under
\* every interleaving, the ratio it returns when it runs alone.  (They share
\* the displaced vertices stored on the spec, see C11.)
C12_ConcurrentEvaluationsAgree ==
    \A t \in Threads :
        pc[t] = "done" =>
            /\ frame[t].err = "none"
            /\ frame[t].rate = base_transmission_rate_triangle(
                                   spec, frame[t].distance_vertical,
                                   frame[t].distance_horizontal).rate

(* ------------------- transmission_rate_diffused_light.py ---------------- *)

\* r_h: a sample of the 1001 random numbers of np.arange(0, 1 + r_step,
\* r_step), in order, chosen so that the altitudes are angles of the model
RandomNumbers_h == <<R(0), Rat(9, 25), Rat(16, 25)>>

\* r_a: a sample of the 1001 random numbers, in order, chosen so that the
\* azimuths are angles of the model
RandomNumbers_a ==
    <<R(0), Rat(37, 360), Rat(1, 4), Rat(127, 360), Rat(1, 2), Rat(217, 360), Rat(3, 4),
      Rat(323, 360)>>

\* math.sqrt of a float whose numerator and denominator are squares
SqrtExact(x) == Rat(ISqrtIn(x.n, 0, x.n), ISqrtIn(x.d, 0, x.d))

\* math.degrees(math.acos(c)) at the cosines of the model's angles
AcosDeg(c) ==
    CASE c = R(1) -> 0
      [] c = Rat(4, 5) -> 37
      [] c = Rat(3, 5) -> 53
      [] c = R(0) -> 90

\* get_random_sun_altitude: 90.0 - degrees(acos(sqrt(1 - random_number)))
get_random_sun_altitude(random_number) == 90 - AcosDeg(SqrtExact(RSub(R(1), random_number)))

\* get_random_sun_azimuth_angle: degrees(2 pi random_number), less 360 when
\* above 180
get_random_sun_azimuth_angle(random_number) ==
    LET angle == (360 * random_number.n) \div random_number.d
    IN  IF angle > 180 THEN angle - 360 ELSE angle

\* sun_altitudes of calc_target 'sky': get_random_sun_altitude over r_h
GridAltitudes == [i \in 1 .. Len(RandomNumbers_h) |-> get_random_sun_altitude(RandomNumbers_h[i])]

\* seeded fault: the azimuths not restricted to -90 .. 90
sun_azimuth_angles_unrestricted(base) == base

\* lines 101-102: the azimuths restricted to -90 .. 90
sun_azimuth_angles(base) == SelectSeq(base, LAMBDA a : a >= -90 /\ a <= 90)

\* sun_azimuth_angles: get_random_sun_azimuth_angle over r_a, restricted
GridAzimuths ==
    sun_azimuth_angles([i \in 1 .. Len(RandomNumbers_a) |->
                           get_random_sun_azimuth_angle(RandomNumbers_a[i])])

\* the calc_target values get_random_angles_list accepts
CalcTargets == {"sky", "reflected"}

\* get_random_angles_list: itertools.product(altitudes, azimuths) as a
\* sequence of <<altitude, azimuth>>; the altitudes are negated for the
\* light reflected from the ground.  Any other calc_target raises ValueError.
get_random_angles_list(calc_target) ==
    [i \in 1 .. (Len(GridAltitudes) * Len(GridAzimuths)) |->
        LET alt == GridAltitudes[((i - 1) \div Len(GridAzimuths)) + 1]
            az == GridAzimuths[((i - 1) % Len(GridAzimuths)) + 1]
        IN  <<IF calc_target = "sky" THEN alt ELSE -alt, az>>]

\* lines 45-55: the overlap function of the spec's type, [err, rate, points]
rate_of_type(s, distance_vertical, distance_horizontal) ==
    IF s.type = "square" THEN
        [err |-> "none",
         rate |-> base_transmission_rate_square(s, distance_vertical, distance_horizontal),
         points |-> s.points]
    ELSE IF s.type = "circle" THEN
        LET r == base_transmission_rate_circle(s, distance_vertical, distance_horizontal)
        IN  [err |-> r.err, rate |-> r.rate, points |-> s.points]
    ELSE IF s.type = "triangle" THEN
        base_transmission_rate_triangle(s, distance_vertical, distance_horizontal)
    ELSE [err |-> "ValueError", rate |-> R(0), points |-> s.points]

\* lines 38-60 for one pair of the grid, the loop standing at acc = [err,
\* sum, points]: the displacement, the overlap function of the spec's type,
\* rate_s.append(rate); points is the spec's vertex map, sum the sum of rate_s
diffuse_step(s, acc, angles) ==
    CHOOSE next \in
        {[err |-> r.err, sum |-> RAdd(acc.sum, r.rate), points |-> r.points] :
            r \in {rate_of_type([s EXCEPT !.points = acc.points], d[1], d[2]) :
                      d \in {distance_of_points_shadow(s, angles[1], angles[2])}}} : TRUE

\* the loop of lines 29-60 over the pairs lo .. hi of the grid, standing at
\* acc: the pairs of the first half in their order, then those of the second;
\* an exception ends the loop
RECURSIVE diffuse_loop(_, _, _, _, _)
diffuse_loop(s, grid, lo, hi, acc) ==
    IF lo > hi \/ acc.err # "none" THEN acc
    ELSE IF lo = hi THEN diffuse_step(s, acc, grid[lo])
    ELSE CHOOSE l \in {diffuse_loop(s, grid, ((lo + hi) \div 2) + 1, hi, half) :
                          half \in {diffuse_loop(s, grid, lo, (lo + hi) \div 2, acc)}} : TRUE

\* the file line 67 writes
diffuse_file(calc_target, s) == "result/diffused_light_" \o calc_target \o "_" \o s.type \o ".csv"

\* seeded fault: the pairs of the zenith, whose displacement is undefined,
\* left out of the count the sum is divided by
diffuse_result_defined_only(calc_target, s, n, l) ==
    IF l.err # "none"
    THEN [err |-> l.err, rate |-> R(0), points |-> l.points, files |-> {}]
    ELSE [err |-> "none", rate |-> RDiv(l.sum, R(n - Len(GridAzimuths))),
          points |-> l.points, files |-> {diffuse_file(calc_target, s)}]

\* lines 62-69 after the loop ended as l: the file is written and the mean
\* of the n ratios returned, unless the loop raised
diffuse_result(calc_target, s, n, l) ==
    IF l.err # "none"
    THEN [err |-> l.err, rate |-> R(0), points |-> l.points, files |-> {}]
    ELSE [err |-> "none", rate |-> RDiv(l.sum, R(n)),
          points |-> l.points, files |-> {diffuse_file(calc_target, s)}]

\* diffused_light_transmission_rate(calc_target, spec): [err, rate, points,
\* files]: the mean of the ratios over the grid, the spec's vertex map when
\* the call ends and the files it has written
diffused_light_transmission_rate(calc_target, s) ==
    IF calc_target \notin CalcTargets
    THEN [err |-> "ValueError", rate |-> R(0), points |-> s.points, files |-> {}]
    ELSE LET grid == get_random_angles_list(calc_target)
         IN  CHOOSE result \in
                 {diffuse_result(calc_target, s, Len(grid), l) :
                     l \in {diffuse_loop(s, grid, 1, Len(grid),
                                         [err |-> "none", sum |-> R(0), points |-> s.points])}} :
                 TRUE

(* ---------- the runs: total_transmission_rate, parametric_studies ------- *)

\* common.get_direction_list(): <<name, azimuth>> in the order of the dict
get_direction_list ==
    <<<<"N", 180>>, <<"NE", -135>>, <<"E", -90>>, <<"SE", -45>>,
      <<"S", 0>>, <<"SW", 45>>, <<"W", 90>>, <<"NW", 135>>>>

\* the depth of the specs of a run, chosen so that the displacements of the
\* grid leave part of a MaxSize opening lit
RunDepths == {1}

\* the keyword arguments of the specs of a run: an opening of positive size
RunParams ==
    {b \in BuildParams :
        \/ b.type = "square" /\ b.width > 0 /\ b.height > 0
        \/ b.type = "circle" /\ b.radius > 0
        \/ b.type = "triangle"
           /\ ~Singular(PostInit("triangle", 0, 90, 0, 0, 0, 0, b.points).points)}

\* HanaBlockSpec(type=..., depth=..., inclination_angle=90, azimuth_angle=0, ...)
RunSpecs ==
    {PostInit(b.type, dp, 90, 0, b.width, b.height, b.radius, b.points) :
        b \in RunParams, dp \in RunDepths}

\* number_of_openings of a row of parametric_studies_triangle.csv
NumbersOfOpenings == {1, 2}

\* front_width, front_height of a row
FrontSizes == {MaxSize, MaxSize + 1}

\* HanaBlock(...) and its __post_init__
HanaBlock(opening_specs, number_of_openings, depth, inclination_angle, azimuth_angle, front_width, front_height) ==
    [opening_specs |-> opening_specs, number_of_openings |-> number_of_openings,
     depth |-> depth, inclination_angle |-> inclination_angle,
     azimuth_angle |-> azimuth_angle, front_width |-> front_width,
     front_height |-> front_height, front_area |-> front_width * front_height]

\* the local variables of a run: tau_s, tau_r, spec_count, and the index of
\* the direction of the direction loop
NoFrame == [tau_s |-> <<>>, tau_r |-> <<>>, spec_count |-> 0, direction |-> 0]

\* the positions of total_transmission_rate and of calc_transmission_rate
TotalLocs == {"total_reflected", "total_direction", "total_rows"}
CalcLocs == {"calc_opening", "calc_direction", "calc_rows"}

InitRun ==
    /\ calc_mode = "analysis"
    /\ spec = NoSpec
    /\ op = "none"
    /\ args = NoArgs
    /\ ret = R(0)
    /\ err = "none"
    /\ pc = <<"start">>
    /\ frame = <<NoFrame>>
    /\ hana_block = NoBlock
    /\ files = {}

\* case_study_single, case_study: spec = common.HanaBlockSpec(...)
RunBuild ==
    /\ pc[1] = "start"
    /\ \E s \in RunSpecs :
          /\ spec' = s
          /\ args' = [call |-> "HanaBlockSpec", type |-> s.type, width |-> s.width,
                      height |-> s.height, radius |-> s.radius, points |-> s.points]
    /\ op' = "build"
    /\ pc' = <<"ready">>
    /\ UNCHANGED <<calc_mode, ret, err, frame, hana_block, files>>

\* diffused_light_transmission_rate(calc_target, spec), as case_study calls
\* it: the displaced vertices of a triangle stay on the spec, and the debug
\* file is written
Diffuse ==
    /\ pc[1] = "ready"
    /\ err = "none"
    /\ \E calc_target \in CalcTargets \cup {"ground"} :
          \E r \in {diffused_light_transmission_rate(calc_target, spec)} :
              /\ args' = [call |-> "diffused_light_transmission_rate",
                          calc_target |-> calc_target]
              /\ ret' = r.rate
              /\ err' = r.err
              /\ spec' = [spec EXCEPT !.points = r.points]
              /\ files' = files \cup r.files
    /\ op' = "diffuse"
    /\ UNCHANGED <<calc_mode, pc, frame, hana_block>>

\* total_transmission_rate is called; lines 77-78: tau_s
TotalSky ==
    /\ pc[1] = "ready"
    /\ err = "none"
    /\ \E r \in {diffused_light_transmission_rate("sky", spec)} :
           /\ ret' = r.rate
           /\ err' = r.err
           /\ spec' = [spec EXCEPT !.points = r.points]
           /\ files' = files \cup r.files
           /\ frame' = <<[NoFrame EXCEPT !.tau_s = <<r.rate>>]>>
           /\ pc' = <<IF r.err = "none" THEN "total_reflected" ELSE "raised">>
    /\ op' = "total_sky"
    /\ args' = [call |-> "total_transmission_rate"]
    /\ UNCHANGED <<calc_mode, hana_block>>

\* lines 81-82: tau_r; then the region loop and the direction loop begin
TotalReflected ==
    /\ pc[1] = "total_reflected"
    /\ \E r \in {diffused_light_transmission_rate("reflected", spec)} :
           /\ ret' = r.rate
           /\ err' = r.err
           /\ spec' = [spec EXCEPT !.points = r.points]
           /\ files' = files \cup r.files
           /\ frame' = <<[frame[1] EXCEPT !.tau_r = <<r.rate>>, !.direction = 1]>>
           /\ pc' = <<IF r.err = "none" THEN "total_direction" ELSE "raised">>
    /\ op' = "total_reflected"
    /\ UNCHANGED <<calc_mode, args, hana_block>>

\* lines 91-94: for direction, angle in directions.items(): spec.azimuth_angle = angle
TotalDirection ==
    /\ pc[1] = "total_direction"
    /\ spec' = [spec EXCEPT !.azimuth_angle = get_direction_list[frame[1].direction][2]]
    /\ op' = "total_direction"
    /\ pc' = <<"total_rows">>
    /\ UNCHANGED <<calc_mode, args, ret, err, frame, hana_block, files>>

\* the radiation on the slope, W/m2, that solar_radiation.get_direct_radiation,
\* get_diffuse_radiation and get_reflected_radiation return for a row
Radiations == {0, 1, 2}

\* lines 170-180 of a row: tau_d_t and tau_total from the radiations of the
\* row, the direct ratio of the row and the diffuse ratios of the run
tau_total(i_d_t, i_s_t, i_r_t, tau_d_t, tau_s, tau_r) ==
    LET i_total == RAdd(RAdd(i_d_t, i_s_t), i_r_t)
        direct == IF RLt(i_d_t, get_error_value) THEN R(0)
                  ELSE RDiv(RMul(i_d_t, tau_d_t), i_d_t)
    IN  IF RLt(i_total, get_error_value) THEN R(0)
        ELSE RDiv(RAdd(RAdd(RMul(i_d_t, direct), RMul(i_s_t, tau_s)), RMul(i_r_t, tau_s)),
                  i_total)

\* lines 107-143, the climate data having a row: the radiations of the row
\* are computed, then distance_of_points_shadow is called with keywords it
\* does not take
TotalRow ==
    /\ pc[1] = "total_rows"
    /\ \E i_d_t, i_s_t, i_r_t \in Radiations :
          args' = [call |-> "total_transmission_rate",
                   i_d_t |-> R(i_d_t), i_s_t |-> R(i_s_t), i_r_t |-> R(i_r_t)]
    /\ err' = "TypeError"
    /\ op' = "total_row"
    /\ pc' = <<"raised">>
    /\ UNCHANGED <<calc_mode, spec, ret, frame, hana_block, files>>

\* lines 107 and 191-204, the climate data having no row: the file of the
\* direction is written and the direction loop goes on, or the run returns
TotalWrite ==
    /\ pc[1] = "total_rows"
    /\ files' = files \cup {"result/" \o calc_mode \o "_case1_region1_"
                              \o get_direction_list[frame[1].direction][1] \o ".csv"}
    /\ op' = "total_write"
    /\ IF frame[1].direction < Len(get_direction_list)
       THEN /\ frame' = <<[frame[1] EXCEPT !.direction = @ + 1]>>
            /\ pc' = <<"total_direction">>
       ELSE /\ frame' = frame
            /\ pc' = <<"returned">>
    /\ UNCHANGED <<calc_mode, spec, args, ret, err, hana_block>>

\* parametric_studies lines 37-91: the opening specs and the HanaBlock of a
\* row are built and calc_transmission_rate is called
BlockBuild ==
    /\ pc[1] = "start"
    /\ \E n \in NumbersOfOpenings, fw \in FrontSizes, fh \in FrontSizes, dp \in RunDepths :
       \E opening_specs \in [1 .. n -> {s \in RunSpecs : s.depth = dp}] :
          hana_block' = HanaBlock(opening_specs, n, dp, 90, 0, fw, fh)
    /\ op' = "block_build"
    /\ args' = [call |-> "calc_transmission_rate"]
    /\ pc' = <<"calc_opening">>
    /\ UNCHANGED <<calc_mode, spec, ret, err, frame, files>>

\* calc_transmission_rate lines 128-139, one pass of for spec_count in
\* range(4): tau_s and tau_r of the opening, or nan where there is none
CalcOpening ==
    /\ pc[1] = "calc_opening"
    /\ LET i == frame[1].spec_count + 1
       IN  IF frame[1].spec_count < hana_block.number_of_openings
           THEN \E r_s \in {diffused_light_transmission_rate(
                                  "sky", hana_block.opening_specs[i])} :
                \E r_r \in {diffused_light_transmission_rate(
                                  "reflected",
                                  [hana_block.opening_specs[i] EXCEPT !.points = r_s.points])} :
                    /\ hana_block' = [hana_block EXCEPT !.opening_specs[i].points =
                                         IF r_s.err # "none" THEN r_s.points ELSE r_r.points]
                    /\ files' = files \cup r_s.files
                                      \cup (IF r_s.err # "none" THEN {} ELSE r_r.files)
                    /\ err' = (IF r_s.err # "none" THEN r_s.err ELSE r_r.err)
                    /\ frame' = <<[frame[1] EXCEPT !.tau_s = Append(@, r_s.rate),
                                                   !.tau_r = Append(@, r_r.rate),
                                                   !.spec_count = i,
                                                   !.direction = 1]>>
                    /\ pc' = <<IF r_s.err # "none" \/ r_r.err # "none" THEN "raised"
                               ELSE IF i = 4 THEN "calc_direction" ELSE "calc_opening">>
           ELSE /\ frame' = <<[frame[1] EXCEPT !.tau_s = Append(@, NaN),
                                               !.tau_r = Append(@, NaN),
                                               !.spec_count = i,
                                               !.direction = 1]>>
                /\ pc' = <<IF i = 4 THEN "calc_direction" ELSE "calc_opening">>
                /\ UNCHANGED <<hana_block, files, err>>
    /\ op' = "calc_opening"
    /\ UNCHANGED <<calc_mode, spec, args, ret>>

\* lines 149-152: for direction, angle in directions.items():
\* hana_block.azimuth_angle = angle
CalcDirection ==
    /\ pc[1] = "calc_direction"
    /\ hana_block' = [hana_block EXCEPT
                         !.azimuth_angle = get_direction_list[frame[1].direction][2]]
    /\ op' = "calc_direction"
    /\ pc' = <<"calc_rows">>
    /\ UNCHANGED <<calc_mode, spec, args, ret, err, frame, files>>

\* lines 176-217, the climate data having a row: distance_of_points_shadow
\* is called with keywords it does not take
CalcRow ==
    /\ pc[1] = "calc_rows"
    /\ err' = "TypeError"
    /\ op' = "calc_row"
    /\ pc' = <<"raised">>
    /\ UNCHANGED <<calc_mode, spec, args, ret, frame, hana_block, files>>

\* lines 176 and 304-335, the climate data having no row: the file of the
\* direction is written and the direction loop goes on, or the run returns
CalcWrite ==
    /\ pc[1] = "calc_rows"
    /\ files' = files \cup {"parametric_study/" \o calc_mode \o "_case1_region1_"
                              \o get_direction_list[frame[1].direction][1] \o ".csv"}
    /\ op' = "calc_write"
    /\ IF frame[1].direction < Len(get_direction_list)
       THEN /\ frame' = <<[frame[1] EXCEPT !.direction = @ + 1]>>
            /\ pc' = <<"calc_direction">>
       ELSE /\ frame' = frame
            /\ pc' = <<"returned">>
    /\ UNCHANGED <<calc_mode, spec, args, ret, err, hana_block>>

\* get_partition_area_rate: for spec_count in range(4), the perimeter of
\* opening_specs[0] added for every spec_count below number_of_openings
get_partition_area_rate(block) ==
    LET passes == IF block.number_of_openings < 4 THEN block.number_of_openings ELSE 4
        perimeter_total == passes * block.opening_specs[1].perimeter
    IN  Rat(perimeter_total * block.depth, block.front_area * 2 * FP)

\* get_opening_area_rate: for spec_count in range(4), the area of
\* opening_specs[0] added for every spec_count below number_of_openings
get_opening_area_rate(block) ==
    LET passes == IF block.number_of_openings < 4 THEN block.number_of_openings ELSE 4
        area == block.opening_specs[1].area
        opening_area_total == Rat(passes * area.n, area.d)
    IN  RDiv(opening_area_total, R(block.front_area))

\* get_partition_area_rate(hana_block) is called on the block that was built
PartitionAreaRate ==
    /\ pc[1] = "calc_opening"
    /\ frame[1].spec_count = 0
    /\ op' = "partition_area_rate"
    /\ args' = [call |-> "get_partition_area_rate"]
    /\ ret' = get_partition_area_rate(hana_block)
    /\ pc' = <<"returned">>
    /\ UNCHANGED <<calc_mode, spec, err, frame, hana_block, files>>

\* get_opening_area_rate(hana_block) is called on the block that was built
OpeningAreaRate ==
    /\ pc[1] = "calc_opening"
    /\ frame[1].spec_count = 0
    /\ op' = "opening_area_rate"
    /\ args' = [call |-> "get_opening_area_rate"]
    /\ ret' = get_opening_area_rate(hana_block)
    /\ pc' = <<"returned">>
    /\ UNCHANGED <<calc_mode, spec, err, frame, hana_block, files>>

NextRun ==
    \/ RunBuild
    \/ Diffuse
    \/ TotalSky
    \/ TotalReflected
    \/ TotalDirection
    \/ TotalRow
    \/ TotalWrite
    \/ BlockBuild
    \/ CalcOpening
    \/ CalcDirection
    \/ CalcRow
    \/ CalcWrite
    \/ PartitionAreaRate
    \/ OpeningAreaRate

SpecRun == InitRun /\ [][NextRun]_vars

(* ------------------------- properties of the runs ----------------------- *)

\* C13: in every state while calc_transmission_rate processes a HanaBlock,
\* in particular after each direction of the compass has been selected,
\* the inclination_angle and the azimuth_angle of every opening spec of the
\* block equal the block's own.  (The direction loop sets the azimuth of the
\* block alone.)
C13_OpeningsFollowBlockOrientation ==
    pc[1] \in CalcLocs =>
        \A i \in 1 .. Len(hana_block.opening_specs) :
            /\ hana_block.opening_specs[i].inclination_angle = hana_block.inclination_angle
            /\ hana_block.opening_specs[i].azimuth_angle = hana_block.azimuth_angle

\* C14: diffused_light_transmission_rate is idempotent: every call returns
\* the value the first call with that calc_target on the freshly built spec
\* returns, so two successive calls with the same calc_target and the same
\* spec return identical values, also on a triangle spec that an earlier call
\* has left its displaced vertices on.
C14_DiffuseIdempotent ==
    (op = "diffuse" /\ args.calc_target \in CalcTargets) =>
        /\ err = "none"
        /\ ret = diffused_light_transmission_rate(
                     args.calc_target, [spec EXCEPT !.points = WithoutDash(spec.points)]).rate

\* a call for the sky on a triangle spec that a call for the reflected light
\* has evaluated before, returning a nonzero value
C14_Witness ==
    /\ op = "diffuse"
    /\ err = "none"
    /\ spec.type = "triangle"
    /\ args.calc_target = "sky"
    /\ diffuse_file("reflected", spec) \in files
    /\ ret.n # 0

\* C15: the diffuse integrator performs no I/O: a call of
\* diffused_light_transmission_rate writes no file.  (Line 67 writes the
\* ratios of the grid to a file under result/.)
C15_DiffuseWritesNoFile ==
    op = "diffuse" => files = {}

\* the tolerance of the cross-validation at the sizes of the model: 0.02
\* stands for a pixel or two of the 689 to 2755 a side of 50 to 200 mm has
\* at resolution 350; a side of 1 mm has 13 pixels, and a pixel lost on
\* each axis changes the ratio by up to 2/13
MeshTolerance == Rat(1, 5)

\* C16: for every square-kind aperture of positive width and height,
\* equal-sided or not, and every defined displacement, the ratio of the
\* raster method and the ratio of the analytic method differ by at most the
\* tolerance.  (The raster method moves the shape by distance_vertical along
\* x, the axis of the width, and by distance_horizontal along y; the
\* analytic method sets distance_horizontal against the width.)
C16_MeshAgreesWithAnalytic ==
    (/\ op = "rate_mesh"
     /\ spec.type = "square"
     /\ spec.width > 0
     /\ spec.height > 0
     /\ DefinedArgs)
        => /\ err = "none"
           /\ RLeq(RAbs(RSub(ret, base_transmission_rate_square(
                                      spec, args.distance_vertical,
                                      args.distance_horizontal))),
                   MeshTolerance)

\* the derived fields of a spec equal the formula of its shape applied to
\* the shape parameters it has now
ShapeConsistent(s) ==
    CASE s.type = "square" ->
             /\ s.area = [n |-> s.width * s.height, d |-> 1]
             /\ s.perimeter = 2 * (s.width + s.height) * FP
      [] s.type = "circle" ->
             /\ s.area = [n |-> PiFP * s.radius * s.radius, d |-> FP]
             /\ s.perimeter = 2 * PiFP * s.radius
      [] s.type = "triangle" ->
             LET a == <<s.points["peak_a"][1].n, s.points["peak_a"][2].n>>
                 b == <<s.points["peak_b"][1].n, s.points["peak_b"][2].n>>
                 c == <<s.points["peak_c"][1].n, s.points["peak_c"][2].n>>
                 edge(p, q) == SqrtFP((p[1] - q[1]) * (p[1] - q[1]) + (p[2] - q[2]) * (p[2] - q[2]))
             IN  /\ s.area = [n |-> Abs((b[1] - a[1]) * (c[2] - a[2]) - (c[1] - a[1]) * (b[2] - a[2])),
                              d |-> 2]
                 /\ s.perimeter = edge(a, b) + edge(b, c) + edge(c, a)
      [] OTHER -> FALSE

\* C17: after construction and after any sequence of operations of the
\* engine or of the orchestrators, the area and the perimeter of every
\* HanaBlockSpec equal the formula of its shape applied to its current
\* shape parameters, and the front_area of the HanaBlock equals
\* front_width * front_height.
C17_DerivedFieldsConsistent ==
    /\ spec # NoSpec => ShapeConsistent(spec)
    /\ hana_block # NoBlock =>
          /\ hana_block.front_area = hana_block.front_width * hana_block.front_height
          /\ \A i \in 1 .. Len(hana_block.opening_specs) :
                ShapeConsistent(hana_block.opening_specs[i])

\* calc_transmission_rate has returned, the block facing the last direction,
\* one of its openings a triangle that carries displaced vertices
C17_Witness ==
    /\ pc[1] = "returned"
    /\ hana_block # NoBlock
    /\ hana_block.azimuth_angle = 135
    /\ \E i \in 1 .. Len(hana_block.opening_specs) :
          /\ hana_block.opening_specs[i].type = "triangle"
          /\ "peak_a_dash" \in DOMAIN hana_block.opening_specs[i].points

\* the parameters of a spec that the claim of C18 names: the orientation, the
\* depth and the shape parameters
SpecParameters(s) ==
    <<s.inclination_angle, s.azimuth_angle, s.depth, s.type, s.width, s.height, s.radius,
      WithoutDash(s.points)>>

\* C18: total_transmission_rate treats the spec it receives as read-only: no
\* step of it changes the inclination angle, the azimuth angle, the depth or
\* a shape parameter of the spec, so that these equal their values at the
\* time of the call at every point of the run and on return.  (The direction
\* loop assigns spec.azimuth_angle.)
C18_TotalLeavesSpecAlone ==
    [][op' \in {"total_sky", "total_reflected", "total_direction", "total_row", "total_write"}
          => SpecParameters(spec') = SpecParameters(spec)]_vars

\* the positive part of a number
Pos(x) == IF RLt(R(0), x) THEN x ELSE R(0)

\* area(T /\ T') / area(T) for the triangle T = a b c of nonzero area and T'
\* its translate by v, from the geometry alone: with v = s (b - a) + t (c - a),
\* the points common to both have barycentric coordinates beta >= max(0, s),
\* gamma >= max(0, t), beta + gamma <= min(1, 1 + s + t); they form a
\* triangle similar to T of scale k = 1 - max(0, s) - max(0, t) -
\* max(0, -(s + t)), or nothing when k <= 0
TrueOverlapRatio(a, b, c, v) ==
    LET ab == PSub(b, a)
        ac == PSub(c, a)
        det == RSub(RMul(ab[1], ac[2]), RMul(ac[1], ab[2]))
        s == RDiv(RSub(RMul(v[1], ac[2]), RMul(ac[1], v[2])), det)
        t == RDiv(RSub(RMul(ab[1], v[2]), RMul(v[1], ab[2])), det)
        k == RSub(RSub(RSub(R(1), Pos(s)), Pos(t)), Pos(RSub(R(0), RAdd(s, t))))
    IN  RMul(Pos(k), Pos(k))

\* C19: for every triangle of nonzero area and every defined displacement,
\* base_transmission_rate_triangle returns a ratio, and the ratio equals
\* area(T /\ T') / area(T), T' being T moved by distance_vertical along x and
\* by distance_horizontal along y, as the function moves it.
C19_TriangleRatioIsOverlapArea ==
    (/\ op = "rate_triangle"
     /\ spec.area.n # 0
     /\ DefinedArgs)
        => /\ err = "none"
           /\ ret = TrueOverlapRatio(spec.points["peak_a"], spec.points["peak_b"],
                                     spec.points["peak_c"],
                                     <<args.distance_vertical, args.distance_horizontal>>)

\* a ratio strictly between 0 and 1 has been returned for a displacement
\* with both components nonzero
C19_Witness ==
    /\ op = "rate_triangle"
    /\ spec.area.n # 0
    /\ DefinedArgs
    /\ err = "none"
    /\ args.distance_vertical.n # 0
    /\ args.distance_horizontal.n # 0
    /\ RLt(R(0), ret)
    /\ RLt(ret, R(1))

\* the far side of the evaluation of a call on a triangle is vertical: a
\* vertex qualifies as inside, and the two points of the side opposite to the
\* base point have the same x
FarSideVertical ==
    LET points == WithDash(WithoutDash(spec.points), args.distance_vertical,
                           args.distance_horizontal)
        peak_check_results == get_witch_peak_inside(points)
    IN  /\ AnyInside(peak_check_results)
        /\ LET target == get_target_base_point_and_side(FirstInside(peak_check_results))
           IN  points[target.side_point1][1] = points[target.side_point2][1]

\* (h_dash / h) ** 2 of that evaluation with the line p = 1, q = 0, r = -x_1
VerticalSideRatio ==
    LET points == WithDash(WithoutDash(spec.points), args.distance_vertical,
                           args.distance_horizontal)
        inside_peak_name == FirstInside(get_witch_peak_inside(points))
        target == get_target_base_point_and_side(inside_peak_name)
        x_1 == points[target.side_point1][1]
        h == RAbs(RSub(points[target.base_point][1], x_1))
        h_dash == RAbs(RSub(points[inside_peak_name][1], x_1))
    IN  RMul(RDiv(h_dash, h), RDiv(h_dash, h))

\* C20: when the two points of the far side have equal x, get_linear_equation
\* returns p = 1, q = 0, r = -x_1 and raises no error, in
\* transmission_rate_base and in hana_block_transmission_factor alike: a
\* triangle of nonzero area whose far side is vertical is evaluated to the
\* ratio that line gives.  (get_linear_equation of
\* hana_block_transmission_factor has no such branch.)
C20_VerticalFarSideEvaluated ==
    (/\ op \in {"rate_triangle", "factor_triangle"}
     /\ spec.area.n # 0
     /\ DefinedArgs
     /\ FarSideVertical)
        => /\ err = "none"
           /\ ret = VerticalSideRatio

(* ----------------------- properties of the raster method ---------------- *)

\* round(n / d), d > 0: the nearest integer, a tie going to the even one
RoundNearest(n, d) ==
    LET lo == IF n >= 0 THEN n \div d ELSE -(((-n) + d - 1) \div d)
        twice == 2 * (n - lo * d)
    IN  IF twice < d THEN lo
        ELSE IF twice > d THEN lo + 1
        ELSE IF lo % 2 = 0 THEN lo ELSE lo + 1

\* C21: get_pixel converts a length in mm to pixels by rounding to the
\* nearest integer, px = round(resolution * mm / 25.4), for the positive and
\* the negative displacements the raster method is called with alike.
\* (get_pixel takes int(...), which drops the fraction.)
C21_GetPixelRounds ==
    (op = "rate_mesh" /\ DefinedArgs) =>
        /\ get_pixel(args.distance_vertical, resolution)
              = RoundNearest(resolution * args.distance_vertical.n * 10,
                             254 * args.distance_vertical.d)
        /\ get_pixel(args.distance_horizontal, resolution)
              = RoundNearest(resolution * args.distance_horizontal.n * 10,
                             254 * args.distance_horizontal.d)

\* the pixels set in the grid of the shape moved by the last call's arguments
TranslatedGrid ==
    make_plot_in_mesh(spec, resolution, args.distance_vertical, args.distance_horizontal)

\* the pixels set in the grid of the shape where it is
UntranslatedGrid == make_plot_in_mesh(spec, resolution, R(0), R(0))

\* C22: for a defined displacement the raster method returns (pixels set in
\* both the untranslated and the translated grid) / (pixels set in the
\* untranslated grid), and it ends with an error whenever the untranslated
\* grid has no pixel set, as for a shape of size zero.
C22_RasterRatioOrError ==
    (op = "rate_mesh" /\ DefinedArgs) =>
        IF UntranslatedGrid = {} THEN err # "none"
        ELSE /\ err = "none"
             /\ ret = Rat(Cardinality(UntranslatedGrid \cap TranslatedGrid),
                          Cardinality(UntranslatedGrid))

\* a shape of size zero was handed to the raster method, which raised
C22_Witness ==
    /\ op = "rate_mesh" /\ DefinedArgs
    /\ Max2(spec.width, spec.height) = 0
    /\ UntranslatedGrid = {}
    /\ err # "none"

\* the raster method returned a ratio strictly between 0 and 1
C22_PartialOverlap ==
    /\ op = "rate_mesh" /\ DefinedArgs /\ err = "none"
    /\ RLt(R(0), ret) /\ RLt(ret, R(1))

(* ------------------- properties of the choice of the inside point -------- *)

\* the position of a vertex name in the order A, B, C, A', B', C'
OrderOf(name) ==
    CASE name = "peak_a" -> 1 [] name = "peak_b" -> 2 [] name = "peak_c" -> 3
      [] name = "peak_a_dash" -> 4 [] name = "peak_b_dash" -> 5
      [] name = "peak_c_dash" -> 6 [] OTHER -> 0

\* the vertex names an evaluation has judged inside
Qualifying(t) ==
    {k \in DOMAIN frame[t].peak_check_results : frame[t].peak_check_results[k]}

\* C23: when more than one of the six points qualifies as inside the other
\* triangle, the triangle computation takes as the inside point the first
\* qualifying one in the order A, B, C, A', B', C'.
C23_FirstQualifyingPointTaken ==
    \A t \in Threads :
        (pc[t] = "done" /\ Cardinality(Qualifying(t)) > 1) =>
            /\ frame[t].inside_peak_name \in Qualifying(t)
            /\ \A k \in Qualifying(t) : OrderOf(frame[t].inside_peak_name) <= OrderOf(k)

\* an evaluation has ended with several qualifying points, A not among them
C23_Witness ==
    \E t \in Threads :
        /\ pc[t] = "done"
        /\ Cardinality(Qualifying(t)) > 1
        /\ "peak_a" \notin Qualifying(t)
        /\ frame[t].inside_peak_name # "none"

(* ---------------------- properties of the diffuse mean ------------------- *)

\* the pairs of the full cross product of the altitude samples and the
\* retained azimuth samples, as index pairs
GridPairs == (1 .. Len(GridAltitudes)) \X (1 .. Len(GridAzimuths))

\* the altitude and azimuth of an index pair, for the target of the last call
PairAngles(p) ==
    <<IF args.calc_target = "reflected" THEN -GridAltitudes[p[1]] ELSE GridAltitudes[p[1]],
      GridAzimuths[p[2]]>>

\* the displacement of an index pair is the undefined sentinel
PairUndefined(p) ==
    \E d \in {distance_of_points_shadow(spec, PairAngles(p)[1], PairAngles(p)[2])} :
        isnan(d[1]) /\ isnan(d[2])

\* the analytic ratio of an index pair, 0.0 where the displacement is
\* undefined
PairRatio(p) ==
    CHOOSE x \in
        {IF isnan(d[1]) /\ isnan(d[2]) THEN R(0) ELSE rate_of_type(spec, d[1], d[2]).rate :
            d \in {distance_of_points_shadow(spec, PairAngles(p)[1], PairAngles(p)[2])}} : TRUE

\* the k-th index pair of the cross product, k = 1 .. Cardinality(GridPairs)
PairAt(k) ==
    <<((k - 1) \div Len(GridAzimuths)) + 1, ((k - 1) % Len(GridAzimuths)) + 1>>

\* the sum of the ratios of the index pairs lo .. hi
RECURSIVE SumOfRatios(_, _)
SumOfRatios(lo, hi) ==
    IF lo > hi THEN R(0)
    ELSE IF lo = hi THEN PairRatio(PairAt(lo))
    ELSE CHOOSE x \in {RAdd(first, second) :
                          first \in {SumOfRatios(lo, (lo + hi) \div 2)},
                          second \in {SumOfRatios(((lo + hi) \div 2) + 1, hi)}} : TRUE

\* C24: diffused_light_transmission_rate returns the unweighted arithmetic
\* mean of the analytic ratio over every pair of the full cross product of
\* the altitude samples and the retained azimuth samples; a pair whose
\* displacement is undefined contributes 0.0 and is still counted in the
\* denominator.
C24_DiffuseIsMeanOverAllPairs ==
    (op = "diffuse" /\ args.calc_target \in CalcTargets) =>
        /\ err = "none"
        /\ {PairAt(k) : k \in 1 .. Cardinality(GridPairs)} = GridPairs
        /\ ret = RDiv(SumOfRatios(1, Cardinality(GridPairs)), R(Cardinality(GridPairs)))

\* a call has returned a nonzero mean over a grid of which some pairs have
\* an undefined displacement and some a nonzero ratio
C24_Witness ==
    /\ op = "diffuse" /\ args.calc_target \in CalcTargets
    /\ err = "none"
    /\ ret.n # 0
    /\ \E p \in GridPairs : PairUndefined(p)
    /\ \E p \in GridPairs : ~PairUndefined(p) /\ PairRatio(p).n # 0

(* ---------------------- properties of the sampling grid ------------------ *)

\* C25: every (altitude, azimuth) pair get_random_angles_list produces has
\* its azimuth in [-90, 90], taken from values normalized to (-180, 180], and
\* its altitude in [0, 90] for calc_target 'sky' and in [-90, 0] for
\* 'reflected'; the reflected altitudes are the negations of the sky
\* altitudes for the same random numbers.
C25_GridAnglesInRange ==
    (op = "diffuse" /\ args.calc_target \in CalcTargets) =>
        LET random_angles == get_random_angles_list(args.calc_target)
            sky == get_random_angles_list("sky")
            reflected == get_random_angles_list("reflected")
        IN  /\ \A i \in 1 .. Len(RandomNumbers_a) :
                  /\ get_random_sun_azimuth_angle(RandomNumbers_a[i]) > -180
                  /\ get_random_sun_azimuth_angle(RandomNumbers_a[i]) <= 180
            /\ \A i \in 1 .. Len(random_angles) :
                  /\ random_angles[i][2] >= -90 /\ random_angles[i][2] <= 90
                  /\ args.calc_target = "sky" =>
                        (random_angles[i][1] >= 0 /\ random_angles[i][1] <= 90)
                  /\ args.calc_target = "reflected" =>
                        (random_angles[i][1] >= -90 /\ random_angles[i][1] <= 0)
            /\ Len(sky) = Len(reflected)
            /\ \A i \in 1 .. Len(sky) :
                  /\ reflected[i][1] = -sky[i][1]
                  /\ reflected[i][2] = sky[i][2]

\* a call for the reflected light has run over a grid with a pair below the
\* horizon at the azimuth -90, which the normalization brought from 270
C25_Witness ==
    /\ op = "diffuse" /\ args.calc_target = "reflected" /\ err = "none"
    /\ \E i \in 1 .. Len(get_random_angles_list("reflected")) :
          /\ get_random_angles_list("reflected")[i][1] < 0
          /\ get_random_angles_list("reflected")[i][2] = -90
    /\ \E i \in 1 .. Len(RandomNumbers_a) :
          /\ (360 * RandomNumbers_a[i].n) \div RandomNumbers_a[i].d = 270
          /\ get_random_sun_azimuth_angle(RandomNumbers_a[i]) = -90

(* ------------------ properties of the tie-break of the triangle ---------- *)

\* the vertex names judged inside for the vertex map the last call left
QualifyingPoints ==
    {k \in DOMAIN get_witch_peak_inside(spec.points) : get_witch_peak_inside(spec.points)[k]}

\* (h'/h)^2 with the vertex `name` taken as the inside point
SquaredRatioVia(name) ==
    LET target == get_target_base_point_and_side(name)
        side_point1 == spec.points[target.side_point1]
        side_point2 == spec.points[target.side_point2]
        pqr == get_linear_equation(side_point1[1], side_point1[2], side_point2[1], side_point2[2])
        h == get_point_height_from_line(spec.points[target.base_point][1],
                                        spec.points[target.base_point][2],
                                        pqr[1], pqr[2], pqr[3])
        h_dash == get_point_height_from_line(spec.points[name][1], spec.points[name][2],
                                             pqr[1], pqr[2], pqr[3])
    IN  RDiv(h_dash, h)

\* C26: for a triangle of nonzero area and a defined displacement with two or
\* more qualifying points, (h'/h)^2 is the same whichever qualifying point is
\* taken as the inside point, so the ratio returned does not depend on the
\* tie-break.
C26_RatioIndependentOfTieBreak ==
    (/\ op = "rate_triangle" /\ DefinedArgs /\ err = "none"
     /\ Cardinality(QualifyingPoints) >= 2)
        => \A k \in QualifyingPoints : SquaredRatioVia(k) = ret

\* a call with a nonzero displacement has returned a ratio strictly between
\* 0 and 1 with several qualifying points
C26_Witness ==
    /\ op = "rate_triangle" /\ DefinedArgs /\ err = "none" /\ ~ZeroArgs
    /\ Cardinality(QualifyingPoints) >= 2
    /\ RLt(R(0), ret) /\ RLt(ret, R(1))

(* ------------------ properties of the axes of the triangle --------------- *)

\* the vertices of the triangle of the spec
TriangleVertices == {"peak_a", "peak_b", "peak_c"}

\* d is at least the extent of the triangle along x
CoversExtentX(d) ==
    \A k, l \in TriangleVertices : RGeq(d, RSub(spec.points[k][1], spec.points[l][1]))

\* C27: the triangle computation uses the axes of the square computation:
\* the horizontal distance shifts the vertices along x, the axis of the width,
\* and the vertical distance shifts them along y; hence the ratio of a
\* triangle is 0.0 whenever |distance_horizontal| is at least the extent of
\* the triangle along x.  (Lines 94-99 add distance_vertical to x and
\* distance_horizontal to y.)
C27_TriangleAxesAsSquare ==
    (op = "rate_triangle" /\ DefinedArgs /\ err = "none") =>
        /\ \A k \in TriangleVertices :
              spec.points[k \o "_dash"]
                 = <<RAdd(spec.points[k][1], args.distance_horizontal),
                     RAdd(spec.points[k][2], args.distance_vertical)>>
        /\ CoversExtentX(RAbs(args.distance_horizontal)) => ret = R(0)

\* the consequence alone: the ratio of a triangle is 0.0 whenever
\* |distance_horizontal| is at least the extent of the triangle along x
C27_ZeroBeyondExtentX ==
    (op = "rate_triangle" /\ DefinedArgs /\ err = "none"
        /\ CoversExtentX(RAbs(args.distance_horizontal)))
    => ret = R(0)

(* ------------------- properties of the area rates of a block ------------- *)

\* the sum of the areas of the first i openings of the block, mm2
RECURSIVE AreaOfOpenings(_)
AreaOfOpenings(i) ==
    IF i = 0 THEN R(0)
    ELSE RAdd(AreaOfOpenings(i - 1),
              Rat(hana_block.opening_specs[i].area.n, hana_block.opening_specs[i].area.d))

\* the sum of the perimeters of the first i openings of the block, in fixed
\* point
RECURSIVE PerimeterOfOpenings(_)
PerimeterOfOpenings(i) ==
    IF i = 0 THEN 0 ELSE PerimeterOfOpenings(i - 1) + hana_block.opening_specs[i].perimeter

\* C28: for a block with n = number_of_openings openings,
\* get_opening_area_rate returns (the sum of the areas of the n openings) /
\* front_area and get_partition_area_rate returns (the sum of the perimeters
\* of the n openings) * depth / (2 * front_area): each opening contributes
\* its own area and perimeter, also when the openings differ.  (Both loops
\* add the area and the perimeter of opening_specs[0] n times.)
C28_AreaRatesSumOverOpenings ==
    /\ op = "opening_area_rate" =>
          ret = RDiv(AreaOfOpenings(hana_block.number_of_openings), R(hana_block.front_area))
    /\ op = "partition_area_rate" =>
          ret = Rat(PerimeterOfOpenings(hana_block.number_of_openings) * hana_block.depth,
                    2 * hana_block.front_area * FP)

\* the rates of a block whose openings are all alike are the sums the claim
\* states
C28_AlikeOpenings ==
    (/\ op \in {"opening_area_rate", "partition_area_rate"}
     /\ \A i \in 1 .. hana_block.number_of_openings :
           hana_block.opening_specs[i] = hana_block.opening_specs[1])
        => C28_AreaRatesSumOverOpenings

(* ------------------- properties of the rows of the runs ------------------ *)

\* the direct ratios the formula of a row is tried with
DirectRatios == {R(0), Rat(1, 2), R(1)}

\* the diffuse ratios the formula of a row is tried with (tau_s and tau_r of
\* a vertical block are equal, those of a tilted block differ)
DiffuseRatios == {R(0), Rat(1, 4), Rat(1, 2)}

\* (i_d tau_d + i_s tau_s + i_r tau_r) / i_total, or 0.0 where i_total is
\* below the tolerance
WeightedTotal(i_d_t, i_s_t, i_r_t, tau_d_t, tau_s, tau_r) ==
    LET i_total == RAdd(RAdd(i_d_t, i_s_t), i_r_t)
    IN  IF RLt(i_total, get_error_value) THEN R(0)
        ELSE RDiv(RAdd(RAdd(RMul(i_d_t, tau_d_t), RMul(i_s_t, tau_s)), RMul(i_r_t, tau_r)),
                  i_total)

\* the formula of lines 170-180 gives, for the radiations of the row, the
\* weighted total with i_r weighted by tau_r
RowFormulaAsClaimed ==
    op = "total_row" =>
        \A tau_d_t \in DirectRatios, tau_s \in DiffuseRatios, tau_r \in DiffuseRatios :
            tau_total(args.i_d_t, args.i_s_t, args.i_r_t, tau_d_t, tau_s, tau_r)
                = WeightedTotal(args.i_d_t, args.i_s_t, args.i_r_t, tau_d_t, tau_s, tau_r)

\* the formula of lines 170-180 gives the weighted total for the diffuse
\* ratios of the run, which are those of a vertical block
RowFormulaOfVerticalBlock ==
    op = "total_row" =>
        \A tau_d_t \in DirectRatios :
            tau_total(args.i_d_t, args.i_s_t, args.i_r_t, tau_d_t,
                      frame[1].tau_s[1], frame[1].tau_r[1])
                = WeightedTotal(args.i_d_t, args.i_s_t, args.i_r_t, tau_d_t,
                                frame[1].tau_s[1], frame[1].tau_r[1])

\* C29: in total_transmission_rate a row whose i_total is at least the
\* tolerance gets the total (i_d tau_d + i_s tau_s + i_r tau_r) / i_total,
\* the reflected radiation i_r weighted by the reflected ratio tau_r and not
\* by the sky ratio tau_s; a row below the tolerance gets 0.0.  (Line 180
\* weights i_r_t by tau_s, and the row ends with a TypeError before the
\* total is computed, see C30.)
C29_TotalWeightsReflectedByTauR ==
    op = "total_row" => (RowFormulaAsClaimed /\ err = "none")

\* C30: every call of distance_of_points_shadow by total_transmission_rate
\* and by calc_transmission_rate supplies the parameters the function
\* declares (spec, sun_altitude, sun_azimuth_angle), so every time step
\* yields a displacement and never an error.  (Both pass
\* surface_inclination_angle, surface_azimuth_angle and depth.)
C30_RowsYieldDisplacement ==
    op \in {"total_row", "calc_row"} => err = "none"

====
